---- MODULE Spec2Model ----
(***************************************************************************)
(* Model of the CLI document Q&A system (4-rag/cli-document-q&a-system):   *)
(* FileProcessor, PostgreSQLDocumentManager and the `ingest` command.      *)
(*                                                                         *)
(* Representation.  A JavaScript string is a sequence of one-character     *)
(* strings, indexed from 0 by the operators below as in the source.  A     *)
(* file path is the record [dir, name, ext] of its components, so that     *)
(* path.extname and path.basename are projections.  The template string    *)
(* `${file.path}_chunk_${i}` is the pair <<path, i>> (the template is      *)
(* injective in (path, i): the digits after the last "_chunk_" are i).     *)
(* A cosine similarity is kept exactly, as the record [dot, nq, nv] that   *)
(* stands for dot / sqrt(nq * nv).                                         *)
(***************************************************************************)
EXTENDS Integers, Sequences, FiniteSets, TLC

VARIABLES
  db,          \* table document_chunks: a set of rows
  nextId,      \* the table's serial id / created_at clock
  schemaUnique,\* whether the table declares chunk_id UNIQUE
  ing,         \* per client: the running ingestFile call
  calls,       \* how many ingestFile calls have been started
  ask,         \* the running askQuestion call
  cli,         \* the running `ingest` command
  split,       \* the running splitIntoChunks call
  rag,         \* the tutorial pipeline: its store and the running ingestDocument call
  chat,        \* the streaming chat assistant: history, token count, running turn
  tools        \* the tool-calling assistant: history, stats, running turn

vars == <<db, nextId, schemaUnique, ing, calls, ask, cli, split,
         rag, chat, tools>>

-----------------------------------------------------------------------------
(* Bounds of the model *)

MaxIngestCalls == 3       \* ingestFile calls of a sequential run
MaxConcurrentCalls == 2   \* ingestFile calls of an interleaved run
MaxSplitSteps == 110      \* iterations followed of a splitIntoChunks loop that never ends
MaxQuestions == 2         \* lines read by one interactive session
MaxPairCalls == 2         \* ingestFile calls of two clients with different sources
MaxRaceCalls == 1         \* ingestFile calls made while questions are asked
MaxRagCalls == 2          \* ingestDocument calls of the tutorial pipeline
MaxChatTurns == 3         \* streamingChat calls
MaxChatChunks == 2        \* chunks of one stream of the chat assistant
MaxToolTurns == 2         \* streamingChatWithTools calls
MaxToolChunks == 3        \* chunks read by the tool-calling assistant
MaxSigints == 1           \* SIGINT signals sent to one run of a command

(* Program constants *)

DefaultChunkSize == 600
DefaultOverlap == 100
MinChunkLength == 20
DefaultMaxResults == 4
ThresholdNum == 3
ThresholdDen == 10

-----------------------------------------------------------------------------
(* Strings: a string is the sequence of its UTF-16 code units, as in
   ECMAScript; "md" is <<109, 100>> *)

Min(a, b) == IF a < b THEN a ELSE b
Max(a, b) == IF a > b THEN a ELSE b

SetMax(S) == CHOOSE x \in S : \A y \in S : y <= x
SetMin(S) == CHOOSE x \in S : \A y \in S : x <= y

Rep(n, c) == [k \in 1..n |-> c]

\* the WhiteSpace and LineTerminator code points of ECMAScript (trim, \s):
\* U+0009..U+000D, U+0020, U+00A0, U+1680, U+2000..U+200A, U+2028, U+2029,
\* U+202F, U+205F, U+3000, U+FEFF
WhiteSpace ==
  (9..13) \cup {32, 160, 5760} \cup (8192..8202)
    \cup {8232, 8233, 8239, 8287, 12288, 65279}

\* surrogate code units, and the code point a code unit belongs to
IsLeadSurrogate(u) == 55296 <= u /\ u <= 56319
IsTrailSurrogate(u) == 56320 <= u /\ u <= 57343
LeadsPair(text, k) ==
  k < Len(text) /\ IsLeadSurrogate(text[k]) /\ IsTrailSurrogate(text[k + 1])
TrailsPair(text, k) ==
  k > 1 /\ IsTrailSurrogate(text[k]) /\ IsLeadSurrogate(text[k - 1])
PairPoint(lead, trail) == 65536 + (lead - 55296) * 1024 + (trail - 56320)
CodePointAt(text, k) ==
  IF LeadsPair(text, k) THEN PairPoint(text[k], text[k + 1])
  ELSE IF TrailsPair(text, k) THEN PairPoint(text[k - 1], text[k])
  ELSE text[k]

\* the simple lower-case mappings of the Unicode Character Database
\* (version 17.0): <<first, last, step, delta>> maps every step-th code
\* point c of first..last to c + delta
LowerCaseRanges ==
  << <<65, 90, 1, 32>>, <<192, 214, 1, 32>>, <<216, 222, 1, 32>>,
    <<256, 302, 2, 1>>, <<306, 310, 2, 1>>, <<313, 327, 2, 1>>,
    <<330, 374, 2, 1>>, <<376, 376, 1, -121>>, <<377, 381, 2, 1>>,
    <<385, 385, 1, 210>>, <<386, 388, 2, 1>>, <<390, 390, 1, 206>>,
    <<391, 391, 1, 1>>, <<393, 394, 1, 205>>, <<395, 395, 1, 1>>,
    <<398, 398, 1, 79>>, <<399, 399, 1, 202>>, <<400, 400, 1, 203>>,
    <<401, 401, 1, 1>>, <<403, 403, 1, 205>>, <<404, 404, 1, 207>>,
    <<406, 406, 1, 211>>, <<407, 407, 1, 209>>, <<408, 408, 1, 1>>,
    <<412, 412, 1, 211>>, <<413, 413, 1, 213>>, <<415, 415, 1, 214>>,
    <<416, 420, 2, 1>>, <<422, 422, 1, 218>>, <<423, 423, 1, 1>>,
    <<425, 425, 1, 218>>, <<428, 428, 1, 1>>, <<430, 430, 1, 218>>,
    <<431, 431, 1, 1>>, <<433, 434, 1, 217>>, <<435, 437, 2, 1>>,
    <<439, 439, 1, 219>>, <<440, 440, 1, 1>>, <<444, 444, 1, 1>>,
    <<452, 452, 1, 2>>, <<453, 453, 1, 1>>, <<455, 455, 1, 2>>,
    <<456, 456, 1, 1>>, <<458, 458, 1, 2>>, <<459, 475, 2, 1>>,
    <<478, 494, 2, 1>>, <<497, 497, 1, 2>>, <<498, 500, 2, 1>>,
    <<502, 502, 1, -97>>, <<503, 503, 1, -56>>, <<504, 542, 2, 1>>,
    <<544, 544, 1, -130>>, <<546, 562, 2, 1>>, <<570, 570, 1, 10795>>,
    <<571, 571, 1, 1>>, <<573, 573, 1, -163>>, <<574, 574, 1, 10792>>,
    <<577, 577, 1, 1>>, <<579, 579, 1, -195>>, <<580, 580, 1, 69>>,
    <<581, 581, 1, 71>>, <<582, 590, 2, 1>>, <<880, 882, 2, 1>>,
    <<886, 886, 1, 1>>, <<895, 895, 1, 116>>, <<902, 902, 1, 38>>,
    <<904, 906, 1, 37>>, <<908, 908, 1, 64>>, <<910, 911, 1, 63>>,
    <<913, 929, 1, 32>>, <<931, 939, 1, 32>>, <<975, 975, 1, 8>>,
    <<984, 1006, 2, 1>>, <<1012, 1012, 1, -60>>, <<1015, 1015, 1, 1>>,
    <<1017, 1017, 1, -7>>, <<1018, 1018, 1, 1>>, <<1021, 1023, 1, -130>>,
    <<1024, 1039, 1, 80>>, <<1040, 1071, 1, 32>>, <<1120, 1152, 2, 1>>,
    <<1162, 1214, 2, 1>>, <<1216, 1216, 1, 15>>, <<1217, 1229, 2, 1>>,
    <<1232, 1326, 2, 1>>, <<1329, 1366, 1, 48>>, <<4256, 4293, 1, 7264>>,
    <<4295, 4295, 1, 7264>>, <<4301, 4301, 1, 7264>>,
    <<5024, 5103, 1, 38864>>, <<5104, 5109, 1, 8>>, <<7305, 7305, 1, 1>>,
    <<7312, 7354, 1, -3008>>, <<7357, 7359, 1, -3008>>,
    <<7680, 7828, 2, 1>>, <<7838, 7838, 1, -7615>>, <<7840, 7934, 2, 1>>,
    <<7944, 7951, 1, -8>>, <<7960, 7965, 1, -8>>, <<7976, 7983, 1, -8>>,
    <<7992, 7999, 1, -8>>, <<8008, 8013, 1, -8>>, <<8025, 8031, 2, -8>>,
    <<8040, 8047, 1, -8>>, <<8072, 8079, 1, -8>>, <<8088, 8095, 1, -8>>,
    <<8104, 8111, 1, -8>>, <<8120, 8121, 1, -8>>, <<8122, 8123, 1, -74>>,
    <<8124, 8124, 1, -9>>, <<8136, 8139, 1, -86>>, <<8140, 8140, 1, -9>>,
    <<8152, 8153, 1, -8>>, <<8154, 8155, 1, -100>>, <<8168, 8169, 1, -8>>,
    <<8170, 8171, 1, -112>>, <<8172, 8172, 1, -7>>, <<8184, 8185, 1, -128>>,
    <<8186, 8187, 1, -126>>, <<8188, 8188, 1, -9>>,
    <<8486, 8486, 1, -7517>>, <<8490, 8490, 1, -8383>>,
    <<8491, 8491, 1, -8262>>, <<8498, 8498, 1, 28>>, <<8544, 8559, 1, 16>>,
    <<8579, 8579, 1, 1>>, <<9398, 9423, 1, 26>>, <<11264, 11311, 1, 48>>,
    <<11360, 11360, 1, 1>>, <<11362, 11362, 1, -10743>>,
    <<11363, 11363, 1, -3814>>, <<11364, 11364, 1, -10727>>,
    <<11367, 11371, 2, 1>>, <<11373, 11373, 1, -10780>>,
    <<11374, 11374, 1, -10749>>, <<11375, 11375, 1, -10783>>,
    <<11376, 11376, 1, -10782>>, <<11378, 11378, 1, 1>>,
    <<11381, 11381, 1, 1>>, <<11390, 11391, 1, -10815>>,
    <<11392, 11490, 2, 1>>, <<11499, 11501, 2, 1>>, <<11506, 11506, 1, 1>>,
    <<42560, 42604, 2, 1>>, <<42624, 42650, 2, 1>>, <<42786, 42798, 2, 1>>,
    <<42802, 42862, 2, 1>>, <<42873, 42875, 2, 1>>,
    <<42877, 42877, 1, -35332>>, <<42878, 42886, 2, 1>>,
    <<42891, 42891, 1, 1>>, <<42893, 42893, 1, -42280>>,
    <<42896, 42898, 2, 1>>, <<42902, 42920, 2, 1>>,
    <<42922, 42922, 1, -42308>>, <<42923, 42923, 1, -42319>>,
    <<42924, 42924, 1, -42315>>, <<42925, 42925, 1, -42305>>,
    <<42926, 42926, 1, -42308>>, <<42928, 42928, 1, -42258>>,
    <<42929, 42929, 1, -42282>>, <<42930, 42930, 1, -42261>>,
    <<42931, 42931, 1, 928>>, <<42932, 42946, 2, 1>>,
    <<42948, 42948, 1, -48>>, <<42949, 42949, 1, -42307>>,
    <<42950, 42950, 1, -35384>>, <<42951, 42953, 2, 1>>,
    <<42955, 42955, 1, -42343>>, <<42956, 42970, 2, 1>>,
    <<42972, 42972, 1, -42561>>, <<42997, 42997, 1, 1>>,
    <<65313, 65338, 1, 32>>, <<66560, 66599, 1, 40>>,
    <<66736, 66771, 1, 40>>, <<66928, 66938, 1, 39>>,
    <<66940, 66954, 1, 39>>, <<66956, 66962, 1, 39>>,
    <<66964, 66965, 1, 39>>, <<68736, 68786, 1, 64>>,
    <<68944, 68965, 1, 32>>, <<71840, 71871, 1, 32>>,
    <<93760, 93791, 1, 32>>, <<93856, 93880, 1, 27>>,
    <<125184, 125217, 1, 34>> >>

\* c moved by the delta of the range that maps it, if any
Shifted(c, ranges) ==
  LET at == {r \in 1..Len(ranges) : /\ ranges[r][1] <= c
                                    /\ c <= ranges[r][2]
                                    /\ (c - ranges[r][1]) % ranges[r][3] = 0}
  IN  IF at = {} THEN c ELSE c + ranges[CHOOSE r \in at : TRUE][4]

LowerPoint(c) == Shifted(c, LowerCaseRanges)

\* the code points with the property Cased: <<first, last>>
CasedRanges ==
  << <<65, 90>>, <<97, 122>>, <<170, 170>>, <<181, 181>>, <<186, 186>>,
    <<192, 214>>, <<216, 246>>, <<248, 442>>, <<444, 447>>, <<452, 659>>,
    <<662, 696>>, <<704, 705>>, <<736, 740>>, <<837, 837>>, <<880, 883>>,
    <<886, 887>>, <<890, 893>>, <<895, 895>>, <<902, 902>>, <<904, 906>>,
    <<908, 908>>, <<910, 929>>, <<931, 1013>>, <<1015, 1153>>,
    <<1162, 1327>>, <<1329, 1366>>, <<1376, 1416>>, <<4256, 4293>>,
    <<4295, 4295>>, <<4301, 4301>>, <<4304, 4346>>, <<4348, 4351>>,
    <<5024, 5109>>, <<5112, 5117>>, <<7296, 7306>>, <<7312, 7354>>,
    <<7357, 7359>>, <<7424, 7615>>, <<7680, 7957>>, <<7960, 7965>>,
    <<7968, 8005>>, <<8008, 8013>>, <<8016, 8023>>, <<8025, 8025>>,
    <<8027, 8027>>, <<8029, 8029>>, <<8031, 8061>>, <<8064, 8116>>,
    <<8118, 8124>>, <<8126, 8126>>, <<8130, 8132>>, <<8134, 8140>>,
    <<8144, 8147>>, <<8150, 8155>>, <<8160, 8172>>, <<8178, 8180>>,
    <<8182, 8188>>, <<8305, 8305>>, <<8319, 8319>>, <<8336, 8348>>,
    <<8450, 8450>>, <<8455, 8455>>, <<8458, 8467>>, <<8469, 8469>>,
    <<8473, 8477>>, <<8484, 8484>>, <<8486, 8486>>, <<8488, 8488>>,
    <<8490, 8493>>, <<8495, 8500>>, <<8505, 8505>>, <<8508, 8511>>,
    <<8517, 8521>>, <<8526, 8526>>, <<8544, 8575>>, <<8579, 8580>>,
    <<9398, 9449>>, <<11264, 11492>>, <<11499, 11502>>, <<11506, 11507>>,
    <<11520, 11557>>, <<11559, 11559>>, <<11565, 11565>>, <<42560, 42605>>,
    <<42624, 42653>>, <<42786, 42887>>, <<42891, 42894>>, <<42896, 42972>>,
    <<42993, 42998>>, <<43000, 43002>>, <<43824, 43866>>, <<43868, 43881>>,
    <<43888, 43967>>, <<64256, 64262>>, <<64275, 64279>>, <<65313, 65338>>,
    <<65345, 65370>>, <<66560, 66639>>, <<66736, 66771>>, <<66776, 66811>>,
    <<66928, 66938>>, <<66940, 66954>>, <<66956, 66962>>, <<66964, 66965>>,
    <<66967, 66977>>, <<66979, 66993>>, <<66995, 67001>>, <<67003, 67004>>,
    <<67456, 67456>>, <<67459, 67461>>, <<67463, 67504>>, <<67506, 67514>>,
    <<68736, 68786>>, <<68800, 68850>>, <<68944, 68965>>, <<68976, 68997>>,
    <<71840, 71903>>, <<93760, 93823>>, <<93856, 93880>>, <<93883, 93907>>,
    <<119808, 119892>>, <<119894, 119964>>, <<119966, 119967>>,
    <<119970, 119970>>, <<119973, 119974>>, <<119977, 119980>>,
    <<119982, 119993>>, <<119995, 119995>>, <<119997, 120003>>,
    <<120005, 120069>>, <<120071, 120074>>, <<120077, 120084>>,
    <<120086, 120092>>, <<120094, 120121>>, <<120123, 120126>>,
    <<120128, 120132>>, <<120134, 120134>>, <<120138, 120144>>,
    <<120146, 120485>>, <<120488, 120512>>, <<120514, 120538>>,
    <<120540, 120570>>, <<120572, 120596>>, <<120598, 120628>>,
    <<120630, 120654>>, <<120656, 120686>>, <<120688, 120712>>,
    <<120714, 120744>>, <<120746, 120770>>, <<120772, 120779>>,
    <<122624, 122633>>, <<122635, 122654>>, <<122661, 122666>>,
    <<122928, 122989>>, <<125184, 125251>>, <<127280, 127305>>,
    <<127312, 127337>>, <<127344, 127369>> >>

\* the code points with the property Case_Ignorable: <<first, last>>
CaseIgnorableRanges ==
  << <<39, 39>>, <<46, 46>>, <<58, 58>>, <<94, 94>>, <<96, 96>>,
    <<168, 168>>, <<173, 173>>, <<175, 175>>, <<180, 180>>, <<183, 184>>,
    <<688, 879>>, <<884, 885>>, <<890, 890>>, <<900, 901>>, <<903, 903>>,
    <<1155, 1161>>, <<1369, 1369>>, <<1375, 1375>>, <<1425, 1469>>,
    <<1471, 1471>>, <<1473, 1474>>, <<1476, 1477>>, <<1479, 1479>>,
    <<1524, 1524>>, <<1536, 1541>>, <<1552, 1562>>, <<1564, 1564>>,
    <<1600, 1600>>, <<1611, 1631>>, <<1648, 1648>>, <<1750, 1757>>,
    <<1759, 1768>>, <<1770, 1773>>, <<1807, 1807>>, <<1809, 1809>>,
    <<1840, 1866>>, <<1958, 1968>>, <<2027, 2037>>, <<2042, 2042>>,
    <<2045, 2045>>, <<2070, 2093>>, <<2137, 2139>>, <<2184, 2184>>,
    <<2192, 2193>>, <<2199, 2207>>, <<2249, 2306>>, <<2362, 2362>>,
    <<2364, 2364>>, <<2369, 2376>>, <<2381, 2381>>, <<2385, 2391>>,
    <<2402, 2403>>, <<2417, 2417>>, <<2433, 2433>>, <<2492, 2492>>,
    <<2497, 2500>>, <<2509, 2509>>, <<2530, 2531>>, <<2558, 2558>>,
    <<2561, 2562>>, <<2620, 2620>>, <<2625, 2626>>, <<2631, 2632>>,
    <<2635, 2637>>, <<2641, 2641>>, <<2672, 2673>>, <<2677, 2677>>,
    <<2689, 2690>>, <<2748, 2748>>, <<2753, 2757>>, <<2759, 2760>>,
    <<2765, 2765>>, <<2786, 2787>>, <<2810, 2815>>, <<2817, 2817>>,
    <<2876, 2876>>, <<2879, 2879>>, <<2881, 2884>>, <<2893, 2893>>,
    <<2901, 2902>>, <<2914, 2915>>, <<2946, 2946>>, <<3008, 3008>>,
    <<3021, 3021>>, <<3072, 3072>>, <<3076, 3076>>, <<3132, 3132>>,
    <<3134, 3136>>, <<3142, 3144>>, <<3146, 3149>>, <<3157, 3158>>,
    <<3170, 3171>>, <<3201, 3201>>, <<3260, 3260>>, <<3263, 3263>>,
    <<3270, 3270>>, <<3276, 3277>>, <<3298, 3299>>, <<3328, 3329>>,
    <<3387, 3388>>, <<3393, 3396>>, <<3405, 3405>>, <<3426, 3427>>,
    <<3457, 3457>>, <<3530, 3530>>, <<3538, 3540>>, <<3542, 3542>>,
    <<3633, 3633>>, <<3636, 3642>>, <<3654, 3662>>, <<3761, 3761>>,
    <<3764, 3772>>, <<3782, 3782>>, <<3784, 3790>>, <<3864, 3865>>,
    <<3893, 3893>>, <<3895, 3895>>, <<3897, 3897>>, <<3953, 3966>>,
    <<3968, 3972>>, <<3974, 3975>>, <<3981, 3991>>, <<3993, 4028>>,
    <<4038, 4038>>, <<4141, 4144>>, <<4146, 4151>>, <<4153, 4154>>,
    <<4157, 4158>>, <<4184, 4185>>, <<4190, 4192>>, <<4209, 4212>>,
    <<4226, 4226>>, <<4229, 4230>>, <<4237, 4237>>, <<4253, 4253>>,
    <<4348, 4348>>, <<4957, 4959>>, <<5906, 5908>>, <<5938, 5939>>,
    <<5970, 5971>>, <<6002, 6003>>, <<6068, 6069>>, <<6071, 6077>>,
    <<6086, 6086>>, <<6089, 6099>>, <<6103, 6103>>, <<6109, 6109>>,
    <<6155, 6159>>, <<6211, 6211>>, <<6277, 6278>>, <<6313, 6313>>,
    <<6432, 6434>>, <<6439, 6440>>, <<6450, 6450>>, <<6457, 6459>>,
    <<6679, 6680>>, <<6683, 6683>>, <<6742, 6742>>, <<6744, 6750>>,
    <<6752, 6752>>, <<6754, 6754>>, <<6757, 6764>>, <<6771, 6780>>,
    <<6783, 6783>>, <<6823, 6823>>, <<6832, 6877>>, <<6880, 6891>>,
    <<6912, 6915>>, <<6964, 6964>>, <<6966, 6970>>, <<6972, 6972>>,
    <<6978, 6978>>, <<7019, 7027>>, <<7040, 7041>>, <<7074, 7077>>,
    <<7080, 7081>>, <<7083, 7085>>, <<7142, 7142>>, <<7144, 7145>>,
    <<7149, 7149>>, <<7151, 7153>>, <<7212, 7219>>, <<7222, 7223>>,
    <<7288, 7293>>, <<7376, 7378>>, <<7380, 7392>>, <<7394, 7400>>,
    <<7405, 7405>>, <<7412, 7412>>, <<7416, 7417>>, <<7468, 7530>>,
    <<7544, 7544>>, <<7579, 7679>>, <<8125, 8125>>, <<8127, 8129>>,
    <<8141, 8143>>, <<8157, 8159>>, <<8173, 8175>>, <<8189, 8190>>,
    <<8203, 8207>>, <<8216, 8217>>, <<8228, 8228>>, <<8231, 8231>>,
    <<8234, 8238>>, <<8288, 8292>>, <<8294, 8303>>, <<8305, 8305>>,
    <<8319, 8319>>, <<8336, 8348>>, <<8400, 8432>>, <<11388, 11389>>,
    <<11503, 11505>>, <<11631, 11631>>, <<11647, 11647>>, <<11744, 11775>>,
    <<11823, 11823>>, <<12293, 12293>>, <<12330, 12333>>, <<12337, 12341>>,
    <<12347, 12347>>, <<12441, 12446>>, <<12540, 12542>>, <<40981, 40981>>,
    <<42232, 42237>>, <<42508, 42508>>, <<42607, 42610>>, <<42612, 42621>>,
    <<42623, 42623>>, <<42652, 42655>>, <<42736, 42737>>, <<42752, 42785>>,
    <<42864, 42864>>, <<42888, 42890>>, <<42993, 42996>>, <<43000, 43001>>,
    <<43010, 43010>>, <<43014, 43014>>, <<43019, 43019>>, <<43045, 43046>>,
    <<43052, 43052>>, <<43204, 43205>>, <<43232, 43249>>, <<43263, 43263>>,
    <<43302, 43309>>, <<43335, 43345>>, <<43392, 43394>>, <<43443, 43443>>,
    <<43446, 43449>>, <<43452, 43453>>, <<43471, 43471>>, <<43493, 43494>>,
    <<43561, 43566>>, <<43569, 43570>>, <<43573, 43574>>, <<43587, 43587>>,
    <<43596, 43596>>, <<43632, 43632>>, <<43644, 43644>>, <<43696, 43696>>,
    <<43698, 43700>>, <<43703, 43704>>, <<43710, 43711>>, <<43713, 43713>>,
    <<43741, 43741>>, <<43756, 43757>>, <<43763, 43764>>, <<43766, 43766>>,
    <<43867, 43871>>, <<43881, 43883>>, <<44005, 44005>>, <<44008, 44008>>,
    <<44013, 44013>>, <<64286, 64286>>, <<64434, 64450>>, <<65024, 65039>>,
    <<65043, 65043>>, <<65056, 65071>>, <<65106, 65106>>, <<65109, 65109>>,
    <<65279, 65279>>, <<65287, 65287>>, <<65294, 65294>>, <<65306, 65306>>,
    <<65342, 65342>>, <<65344, 65344>>, <<65392, 65392>>, <<65438, 65439>>,
    <<65507, 65507>>, <<65529, 65531>>, <<66045, 66045>>, <<66272, 66272>>,
    <<66422, 66426>>, <<67456, 67461>>, <<67463, 67504>>, <<67506, 67514>>,
    <<68097, 68099>>, <<68101, 68102>>, <<68108, 68111>>, <<68152, 68154>>,
    <<68159, 68159>>, <<68325, 68326>>, <<68900, 68903>>, <<68942, 68942>>,
    <<68969, 68973>>, <<68975, 68975>>, <<69291, 69292>>, <<69317, 69317>>,
    <<69370, 69375>>, <<69446, 69456>>, <<69506, 69509>>, <<69633, 69633>>,
    <<69688, 69702>>, <<69744, 69744>>, <<69747, 69748>>, <<69759, 69761>>,
    <<69811, 69814>>, <<69817, 69818>>, <<69821, 69821>>, <<69826, 69826>>,
    <<69837, 69837>>, <<69888, 69890>>, <<69927, 69931>>, <<69933, 69940>>,
    <<70003, 70003>>, <<70016, 70017>>, <<70070, 70078>>, <<70089, 70092>>,
    <<70095, 70095>>, <<70191, 70193>>, <<70196, 70196>>, <<70198, 70199>>,
    <<70206, 70206>>, <<70209, 70209>>, <<70367, 70367>>, <<70371, 70378>>,
    <<70400, 70401>>, <<70459, 70460>>, <<70464, 70464>>, <<70502, 70508>>,
    <<70512, 70516>>, <<70587, 70592>>, <<70606, 70606>>, <<70608, 70608>>,
    <<70610, 70610>>, <<70625, 70626>>, <<70712, 70719>>, <<70722, 70724>>,
    <<70726, 70726>>, <<70750, 70750>>, <<70835, 70840>>, <<70842, 70842>>,
    <<70847, 70848>>, <<70850, 70851>>, <<71090, 71093>>, <<71100, 71101>>,
    <<71103, 71104>>, <<71132, 71133>>, <<71219, 71226>>, <<71229, 71229>>,
    <<71231, 71232>>, <<71339, 71339>>, <<71341, 71341>>, <<71344, 71349>>,
    <<71351, 71351>>, <<71453, 71453>>, <<71455, 71455>>, <<71458, 71461>>,
    <<71463, 71467>>, <<71727, 71735>>, <<71737, 71738>>, <<71995, 71996>>,
    <<71998, 71998>>, <<72003, 72003>>, <<72148, 72151>>, <<72154, 72155>>,
    <<72160, 72160>>, <<72193, 72202>>, <<72243, 72248>>, <<72251, 72254>>,
    <<72263, 72263>>, <<72273, 72278>>, <<72281, 72283>>, <<72330, 72342>>,
    <<72344, 72345>>, <<72544, 72544>>, <<72546, 72548>>, <<72550, 72550>>,
    <<72752, 72758>>, <<72760, 72765>>, <<72767, 72767>>, <<72850, 72871>>,
    <<72874, 72880>>, <<72882, 72883>>, <<72885, 72886>>, <<73009, 73014>>,
    <<73018, 73018>>, <<73020, 73021>>, <<73023, 73029>>, <<73031, 73031>>,
    <<73104, 73105>>, <<73109, 73109>>, <<73111, 73111>>, <<73177, 73177>>,
    <<73459, 73460>>, <<73472, 73473>>, <<73526, 73530>>, <<73536, 73536>>,
    <<73538, 73538>>, <<73562, 73562>>, <<78896, 78912>>, <<78919, 78933>>,
    <<90398, 90409>>, <<90413, 90415>>, <<92912, 92916>>, <<92976, 92982>>,
    <<92992, 92995>>, <<93504, 93506>>, <<93547, 93548>>, <<94031, 94031>>,
    <<94095, 94111>>, <<94176, 94177>>, <<94179, 94180>>, <<94194, 94195>>,
    <<110576, 110579>>, <<110581, 110587>>, <<110589, 110590>>,
    <<113821, 113822>>, <<113824, 113827>>, <<118528, 118573>>,
    <<118576, 118598>>, <<119143, 119145>>, <<119155, 119170>>,
    <<119173, 119179>>, <<119210, 119213>>, <<119362, 119364>>,
    <<121344, 121398>>, <<121403, 121452>>, <<121461, 121461>>,
    <<121476, 121476>>, <<121499, 121503>>, <<121505, 121519>>,
    <<122880, 122886>>, <<122888, 122904>>, <<122907, 122913>>,
    <<122915, 122916>>, <<122918, 122922>>, <<122928, 122989>>,
    <<123023, 123023>>, <<123184, 123197>>, <<123566, 123566>>,
    <<123628, 123631>>, <<124139, 124143>>, <<124398, 124399>>,
    <<124643, 124643>>, <<124646, 124646>>, <<124654, 124655>>,
    <<124661, 124661>>, <<124671, 124671>>, <<125136, 125142>>,
    <<125252, 125259>>, <<127995, 127999>>, <<917505, 917505>>,
    <<917536, 917631>>, <<917760, 917999>> >>

InRanges(c, ranges) ==
  \E r \in 1..Len(ranges) : ranges[r][1] <= c /\ c <= ranges[r][2]
Cased(c) == InRanges(c, CasedRanges)
CaseIgnorable(c) == InRanges(c, CaseIgnorableRanges)

\* the indices of lo..hi whose code point is not case-ignorable
Solid(text, lo, hi) ==
  {j \in lo..hi : ~CaseIgnorable(CodePointAt(text, j))}

\* the last and the first element of a set of indices, if any
Last(S) == IF S = {} THEN {} ELSE {SetMax(S)}
First(S) == IF S = {} THEN {} ELSE {SetMin(S)}

CasedAt(text, found) ==
  found # {} /\ Cased(CodePointAt(text, CHOOSE j \in found : TRUE))

\* the Final_Sigma context: before the sigma, past any case-ignorable
\* code points, stands a cased letter ...
CasedBefore(text, k) == CasedAt(text, Last(Solid(text, 1, k)))

\* ... and after it, past any case-ignorable code points, stands none
CasedAfter(text, k) == CasedAt(text, First(Solid(text, k, Len(text))))

\* the code units of code point lower, of which the code unit replaced is
\* the lead (or only) one or the trail one
Units(lower, lead) ==
  IF lower < 65536 THEN <<lower>>
  ELSE IF lead THEN <<55296 + ((lower - 65536) \div 1024)>>
  ELSE <<56320 + ((lower - 65536) % 1024)>>

\* the code units that take the place of code unit k: U+0130 becomes
\* U+0069 U+0307, a capital sigma in the Final_Sigma context U+03C2, any
\* other code point its simple mapping
LowerUnitsAt(text, k) ==
  IF CodePointAt(text, k) = 304 THEN <<105, 775>>
  ELSE IF /\ CodePointAt(text, k) = 931
          /\ CasedBefore(text, k - 1)
          /\ ~CasedAfter(text, k + 1)
  THEN <<962>>
  ELSE Units(LowerPoint(CodePointAt(text, k)), LeadsPair(text, k))

\* the concatenation of parts[lo..hi] (the range is halved)
RECURSIVE Concat(_, _, _)
Concat(parts, lo, hi) ==
  IF lo > hi THEN <<>>
  ELSE IF lo = hi THEN parts[lo]
  ELSE LET mid == (lo + hi) \div 2
       IN  Concat(parts, lo, mid) \o Concat(parts, mid + 1, hi)

\* String.prototype.toLowerCase
ToLowerCase(text) ==
  Concat([k \in 1..Len(text) |-> LowerUnitsAt(text, k)], 1, Len(text))

\* String.prototype.slice(start, end) for 0 <= end: a negative start counts
\* from the end of the string
Slice(text, start, end) ==
  LET from == IF start >= 0 THEN start
              ELSE IF Len(text) + start > 0 THEN Len(text) + start ELSE 0
  IN  SubSeq(text, from + 1, Min(end, Len(text)))

\* index (from 1) of the first character at or after k that is not white
\* space, Len(text) + 1 if there is none
RECURSIVE SkipSpaceForward(_, _)
SkipSpaceForward(text, k) ==
  IF k > Len(text) \/ text[k] \notin WhiteSpace THEN k
  ELSE SkipSpaceForward(text, k + 1)

\* index (from 1) of the last character at or before k that is not white
\* space, 0 if there is none
RECURSIVE SkipSpaceBackward(_, _)
SkipSpaceBackward(text, k) ==
  IF k < 1 \/ text[k] \notin WhiteSpace THEN k
  ELSE SkipSpaceBackward(text, k - 1)

\* mutant of trim: nothing removed
Trim_Nothing(text) == text

\* String.prototype.trim()
Trim(text) ==
  SubSeq(text, SkipSpaceForward(text, 1), SkipSpaceBackward(text, Len(text)))

OccursAt(text, pat, k) == \A j \in 1..Len(pat) : text[k + j] = pat[j]

\* the largest index in lo..hi at which pat occurs, or -1 (the range is
\* halved, the upper half searched first)
RECURSIVE ScanBack(_, _, _, _)
ScanBack(text, pat, lo, hi) ==
  IF lo > hi THEN -1
  ELSE IF lo = hi THEN (IF OccursAt(text, pat, lo) THEN lo ELSE -1)
  ELSE LET mid == (lo + hi) \div 2
           upper == ScanBack(text, pat, mid + 1, hi)
       IN  IF upper # -1 THEN upper ELSE ScanBack(text, pat, lo, mid)

\* String.prototype.lastIndexOf(searchString, position): position is
\* clamped to 0..length; the largest index k <= position at which
\* searchString occurs, or -1
LastIndexOf(text, pat, position) ==
  ScanBack(text, pat, 0, Min(Max(position, 0), Len(text) - Len(pat)))

-----------------------------------------------------------------------------
(* PostgreSQLDocumentManager.splitIntoChunks *)

\* "\n\n", "\n", ". ", "!", "?", ";"
breakChars == << <<10, 10>>, <<10>>, <<46, 32>>, <<33>>, <<63>>, <<59>> >>

\* mutant of the bound: a breakpoint at the midpoint is accepted
BestBreak_AtMidpoint(text, start, chunkSize, end) ==
  LET ok == {b \in 1..Len(breakChars) :
               2 * LastIndexOf(text, breakChars[b], end) >= 2 * start + chunkSize}
  IN  IF ok = {} THEN -1
      ELSE LET b == SetMin(ok)
           IN  LastIndexOf(text, breakChars[b], end) + Len(breakChars[b])

\* the for-loop over breakChars: the first kind, in priority order, whose
\* last occurrence at or before `end` lies after start + chunkSize * 0.5
BestBreak(text, start, chunkSize, end) ==
  LET ok == {b \in 1..Len(breakChars) :
               2 * LastIndexOf(text, breakChars[b], end) > 2 * start + chunkSize}
  IN  IF ok = {} THEN -1
      ELSE LET b == SetMin(ok)
           IN  LastIndexOf(text, breakChars[b], end) + Len(breakChars[b])

ChunkEnd(text, start, chunkSize) ==
  LET end == start + chunkSize
  IN  IF end < Len(text)
      THEN LET bestBreak == BestBreak(text, start, chunkSize, end)
           IN  IF bestBreak > -1 THEN bestBreak ELSE end
      ELSE end

RECURSIVE SplitLoop(_, _, _, _, _)
SplitLoop(text, chunkSize, overlap, start, chunks) ==
  IF start < Len(text)
  THEN LET end == ChunkEnd(text, start, chunkSize)
       IN  SplitLoop(text, chunkSize, overlap, end - overlap,
                     Append(chunks, Trim(Slice(text, start, end))))
  ELSE chunks

splitIntoChunks(text, chunkSize, overlap) ==
  SelectSeq(SplitLoop(text, chunkSize, overlap, 0, <<>>),
            LAMBDA chunk : Len(chunk) > MinChunkLength)

-----------------------------------------------------------------------------
(* Inputs: paths, ProcessedFile values, embedding vectors *)

\* extensions and file types, as characters
ExtMd == <<46, 109, 100>>    \* ".md"
ExtTxt == <<46, 116, 120, 116>>    \* ".txt"
ExtJson == <<46, 106, 115, 111, 110>>    \* ".json"
ExtPdf == <<46, 112, 100, 102>>    \* ".pdf"
TypeMd == <<109, 100>>    \* "md"
TypeTxt == <<116, 120, 116>>    \* "txt"

PathA == [dir |-> "docs", name |-> "a", ext |-> ExtMd]
PathB == [dir |-> "notes", name |-> "a", ext |-> ExtMd]
PathC == [dir |-> "docs", name |-> "c", ext |-> ExtTxt]
NoPath == [dir |-> "", name |-> "", ext |-> <<>>]

\* path.basename
basename(p) == [name |-> p.name, ext |-> p.ext]

TextLong == Rep(525, 98)    \* two chunks: the whole text, then its tail
TextShort == Rep(25, 97)    \* one chunk
TextTiny == Rep(10, 99)     \* no chunk survives the length filter

FileA1 == [path |-> PathA, content |-> TextLong, type |-> TypeMd, size |-> 525, lastModified |-> 1]
FileA2 == [path |-> PathA, content |-> TextShort, type |-> TypeMd, size |-> 25, lastModified |-> 2]
FileB == [path |-> PathB, content |-> TextShort, type |-> TypeMd, size |-> 25, lastModified |-> 1]
FileC == [path |-> PathC, content |-> TextTiny, type |-> TypeTxt, size |-> 10, lastModified |-> 1]
NoFile == [path |-> NoPath, content |-> <<>>, type |-> "", size |-> 0, lastModified |-> 0]

ProcessedFiles == {FileA1, FileA2, FileB, FileC}

\* the chunks ingestFile derives from a file
ChunksOf(file) == splitIntoChunks(file.content, DefaultChunkSize, DefaultOverlap)

\* what embeddingModel.embedContent may return for a chunk; <<1>> has the
\* wrong number of dimensions
ChunkVectors == {<<1, 0>>, <<0, 1>>, <<1>>}

\* what embeddingModel.embedContent may return for a question
QueryVectors == {<<1, 0>>, <<1, 3>>, <<1>>}

\* the vector(n) column type of document_chunks.embedding
StoreDimension == 2

Clients == {"w1", "w2"}

\* the values given for maxResults / topK
MaxResultsValues == {1, 2, DefaultMaxResults}

-----------------------------------------------------------------------------
(* FileProcessor *)

supportedExtensions == {ExtTxt, ExtMd, ExtJson}

\* ext.slice(1)
DropDot(ext) == Slice(ext, 1, Len(ext))

\* Array.prototype.join
RECURSIVE Join(_, _)
Join(parts, sep) ==
  IF parts = <<>> THEN <<>>
  ELSE IF Len(parts) = 1 THEN parts[1]
  ELSE parts[1] \o sep \o Join(Tail(parts), sep)

\* JSON values: [t |-> "str", v |-> characters], [t |-> "arr", v |-> values],
\* [t |-> "obj", v |-> <<key, value>> pairs], [t |-> "other"] (number,
\* boolean, null)
RECURSIVE extractText(_)
RECURSIVE ExtractEach(_)
RECURSIVE ExtractEntries(_)

\* obj.forEach(item => extractText(item, ...))
ExtractEach(items) ==
  IF items = <<>> THEN <<>>
  ELSE extractText(items[1]) \o ExtractEach(Tail(items))

\* Object.entries(obj).forEach(...)
ExtractEntries(entries) ==
  IF entries = <<>> THEN <<>>
  ELSE LET key == entries[1][1]
           value == entries[1][2]
           parts == IF value.t = "str" /\ Len(value.v) > 10
                    THEN <<key \o <<58, 32>> \o value.v>>    \* ": "
                    ELSE extractText(value)
       IN  parts \o ExtractEntries(Tail(entries))

\* the inner function of extractTextFromJson: the textParts it pushes
extractText(obj) ==
  CASE obj.t = "str" -> <<obj.v>>
    [] obj.t = "arr" -> ExtractEach(obj.v)
    [] obj.t = "obj" -> ExtractEntries(obj.v)
    [] OTHER -> <<>>

extractTextFromJson(data) == Join(extractText(data), <<10, 10>>)    \* "\n\n"

\* console output: one record per line printed
Message(kind, path) == [kind |-> kind, path |-> path]

\* FileProcessor.processFile on a directory entry; file is null (NoFile,
\* ok = FALSE) for a skipped entry.  fs.stat throws on a missing entry or
\* a dangling link; the extension is tested next; reading throws on a
\* directory and on a file that cannot be read
processFile(entry) ==
  LET ext == ToLowerCase(entry.path.ext)
      skip(kind) == [ok |-> FALSE, file |-> NoFile, log |-> <<Message(kind, entry.path)>>]
  IN  IF entry.kind \in {"broken", "missing"} THEN skip("errorFile")
      ELSE IF ext \notin supportedExtensions THEN skip("skipUnsupported")
      ELSE IF entry.kind # "file" \/ ~entry.readable THEN skip("errorFile")
      ELSE LET content == IF ext = ExtJson THEN extractTextFromJson(entry.json)
                          ELSE entry.text
           IN  IF Len(Trim(content)) = 0 THEN skip("skipEmpty")
               ELSE [ok |-> TRUE,
                     file |-> [path |-> entry.path, content |-> Trim(content),
                               type |-> DropDot(ext), size |-> entry.size,
                               lastModified |-> entry.mtime],
                     log |-> <<>>]

RECURSIVE processDirectory(_, _)
RECURSIVE DirectoryLoop(_, _, _, _, _)

\* the for-loop of processDirectory from item k on; a stat that throws
\* ends the loop in the catch of the directory
DirectoryLoop(dirPath, items, k, recursive, acc) ==
  IF k > Len(items) THEN acc
  ELSE LET item == items[k]
       IN  IF item.kind = "broken"
           THEN [files |-> acc.files,
                 log |-> Append(acc.log, Message("errorDirectory", dirPath))]
           ELSE IF item.kind = "dir" /\ recursive
           THEN LET sub == processDirectory(item, recursive)
                IN  DirectoryLoop(dirPath, items, k + 1, recursive,
                                  [files |-> acc.files \o sub.files,
                                   log |-> acc.log \o sub.log])
           ELSE IF item.kind = "file"
           THEN LET r == processFile(item)
                IN  DirectoryLoop(dirPath, items, k + 1, recursive,
                                  [files |-> IF r.ok THEN Append(acc.files, r.file)
                                             ELSE acc.files,
                                   log |-> acc.log \o r.log])
           ELSE DirectoryLoop(dirPath, items, k + 1, recursive, acc)

\* FileProcessor.processDirectory: the files and the lines printed
processDirectory(dir, recursive) ==
  IF ~dir.readable
  THEN [files |-> <<>>, log |-> <<Message("errorDirectory", dir.path)>>]
  ELSE DirectoryLoop(dir.path, dir.children, 1, recursive,
                     [files |-> <<>>, log |-> <<>>])

-----------------------------------------------------------------------------
(* The file system the `ingest` command is run on *)

JOther == [t |-> "other"]
JStr(v) == [t |-> "str", v |-> v]

\* text: what readFile returns; size: the stats.size that stat reports
FileEntry(path, text, size, readable) ==
  [path |-> path, kind |-> "file", readable |-> readable, text |-> text,
   json |-> JOther, size |-> size, mtime |-> 1, children |-> <<>>]

JsonEntry(path, json, size) ==
  [path |-> path, kind |-> "file", readable |-> TRUE, text |-> <<>>,
   json |-> json, size |-> size, mtime |-> 1, children |-> <<>>]

DirEntry(path, children, readable) ==
  [path |-> path, kind |-> "dir", readable |-> readable, text |-> <<>>,
   json |-> JOther, size |-> 0, mtime |-> 1, children |-> children]

\* an entry whose fs.stat throws (a dangling link)
BrokenEntry(path) ==
  [path |-> path, kind |-> "broken", readable |-> FALSE, text |-> <<>>,
   json |-> JOther, size |-> 0, mtime |-> 0, children |-> <<>>]

MissingEntry(path) ==
  [path |-> path, kind |-> "missing", readable |-> FALSE, text |-> <<>>,
   json |-> JOther, size |-> 0, mtime |-> 0, children |-> <<>>]

PathPdf == [dir |-> "docs", name |-> "b", ext |-> ExtPdf]
PathBlank == [dir |-> "docs", name |-> "blank", ext |-> ExtTxt]
PathLocked == [dir |-> "docs", name |-> "locked", ext |-> ExtTxt]
PathLong == [dir |-> "docs", name |-> "long", ext |-> <<46, 77, 68>>]    \* ".MD"
PathJson == [dir |-> "docs", name |-> "data", ext |-> ExtJson]
PathSub == [dir |-> "docs", name |-> "sub", ext |-> <<>>]
PathSubNote == [dir |-> "docs/sub", name |-> "note", ext |-> ExtTxt]
PathOld == [dir |-> "docs", name |-> "old", ext |-> <<>>]
PathOldLink == [dir |-> "docs/old", name |-> "link", ext |-> ExtMd]
PathOldNote == [dir |-> "docs/old", name |-> "note", ext |-> ExtMd]
PathPrivate == [dir |-> "docs", name |-> "private", ext |-> <<>>]
PathDocs == [dir |-> "", name |-> "docs", ext |-> <<>>]
PathNowhere == [dir |-> "", name |-> "nowhere", ext |-> <<>>]

JsonData ==
  [t |-> "obj",
   v |-> << <<<<116>>, JStr(Rep(5, 106))>>,    \* "t": "jjjjj"
            <<<<98>>, JStr(Rep(22, 107))>>,    \* "b": 22 x "k"
            <<<<110>>, JOther>>,    \* "n": a number
            <<<<108>>, [t |-> "arr", v |-> <<JStr(<<120>>), JOther>>]>> >>]    \* "l": ["x", 1]

\* two spaces, the text, a newline
EntryA == FileEntry(PathA, <<32, 32>> \o TextShort \o <<10>>, 28, TRUE)
EntryPdf == FileEntry(PathPdf, Rep(30, 112), 30, TRUE)    \* 30 x "p"
EntryBlank == FileEntry(PathBlank, <<32, 10, 9, 12>>, 4, TRUE)    \* " \n\t\f"
EntryLocked == FileEntry(PathLocked, Rep(30, 120), 30, FALSE)    \* 30 x "x"
EntryLong == FileEntry(PathLong, TextLong, 525, TRUE)
EntryJson == JsonEntry(PathJson, JsonData, 64)
\* 29 x "n", then U+00E9 (two bytes in the file)
EntrySubNote == FileEntry(PathSubNote, Rep(29, 110) \o <<233>>, 31, TRUE)
EntrySub == DirEntry(PathSub, <<EntrySubNote>>, TRUE)
EntryOldNote == FileEntry(PathOldNote, Rep(30, 111), 30, TRUE)    \* 30 x "o"
EntryOld == DirEntry(PathOld, <<BrokenEntry(PathOldLink), EntryOldNote>>, TRUE)
EntryPrivate == DirEntry(PathPrivate, <<>>, FALSE)
EntryDocs == DirEntry(PathDocs, <<EntryA, EntryPdf, EntryBlank, EntryJson,
                                  EntryLocked, EntryLong, EntryOld, EntryPrivate,
                                  EntrySub>>, TRUE)

\* every regular file under an entry
RECURSIVE FilesUnder(_)
FilesUnder(entry) ==
  IF entry.kind = "file" THEN {entry.path}
  ELSE UNION {FilesUnder(entry.children[k]) : k \in 1..Len(entry.children)}

\* the arguments of the command: <path> and --type
InputPaths == {EntryDocs, EntrySub, EntryA, EntryPdf, MissingEntry(PathNowhere)}
TypeOptions == {<<>>, TypeMd, TypeTxt}

-----------------------------------------------------------------------------
(* The table document_chunks *)

SourceRows(rows, source) == {r \in rows : r.metadata.source = source}
OtherRows(rows, source) == {r \in rows : r.metadata.source # source}

\* mutants of the DELETE: no row deleted; the WHERE clause dropped
DeleteBySource_KeepsOld(rows, source) == rows
DeleteBySource_AllSources(rows, source) == {}

\* mutant of the DELETE: the rows are matched by file name
DeleteBySource_ByBasename(rows, source) ==
  {r \in rows : basename(r.metadata.source) # basename(source)}

\* DELETE FROM document_chunks WHERE metadata->>'source' = $1
DeleteBySource(rows, source) == OtherRows(rows, source)

\* the row built by ingestFile for chunk i
ChunkRow(id, file, i, chunk, embedding) ==
  [id |-> id,
   chunk_id |-> <<file.path, i>>,
   content |-> chunk,
   embedding |-> embedding,
   metadata |-> [source |-> file.path, chunkIndex |-> i,
                 fileType |-> file.type, lastModified |-> file.lastModified]]

\* the store rejects a vector whose dimension is not the column's
DimensionMismatch(embedding) == Len(embedding) # StoreDimension

\* the store rejects a second row with the same chunk_id when the column
\* is declared UNIQUE
DuplicateKey(rows, chunkId) ==
  schemaUnique /\ \E r \in rows : r.chunk_id = chunkId

-----------------------------------------------------------------------------
(* Cosine similarity, kept exactly *)

RECURSIVE DotFrom(_, _, _)
DotFrom(a, b, k) ==
  IF k > Len(a) THEN 0 ELSE a[k] * b[k] + DotFrom(a, b, k + 1)

Dot(a, b) == DotFrom(a, b, 1)

\* 1 - (embedding <=> $1): the value dot / sqrt(nq * nv)
CosineSimilarity(q, v) == [dot |-> Dot(q, v), nq |-> Dot(q, q), nv |-> Dot(v, v)]

\* sign(x) * x^2 is monotone in x; compare the squares as fractions
SignedSquare(s) == IF s.dot < 0 THEN 0 - s.dot * s.dot ELSE s.dot * s.dot

SimLess(a, b) ==
  SignedSquare(a) * (b.nq * b.nv) < SignedSquare(b) * (a.nq * a.nv)

\* the literal 0.3
Threshold == [dot |-> ThresholdNum, nq |-> ThresholdDen, nv |-> ThresholdDen]

-----------------------------------------------------------------------------
(* PostgreSQLDocumentManager.getStats and searchSimilarChunks *)

NoStats == [totalChunks |-> 0, totalDocuments |-> 0, fileTypes |-> {}, lastUpdated |-> 0]

\* the SELECT of getStats over the rows
StatsOf(rows) ==
  [totalChunks |-> Cardinality(rows),
   totalDocuments |-> Cardinality({r.metadata.source : r \in rows}),
   fileTypes |-> {r.metadata.fileType : r \in rows},
   lastUpdated |-> IF rows = {} THEN 0 ELSE SetMax({r.id : r \in rows})]

\* mutant of the ordering: any row may come next
Nearest_AnyRow(rows, q) == rows

\* the rows nearest to q: no row is strictly more similar
Nearest(rows, q) ==
  {r \in rows : \A o \in rows :
     ~SimLess(CosineSimilarity(q, r.embedding), CosineSimilarity(q, o.embedding))}

\* ORDER BY embedding <=> $1 LIMIT $2: every order the statement allows
\* (rows at equal distance come in any order)
RECURSIVE Ranked(_, _, _)
Ranked(rows, q, k) ==
  IF k = 0 \/ rows = {} THEN {<<>>}
  ELSE UNION {{<<r>> \o rest : rest \in Ranked(rows \ {r}, q, k - 1)} :
              r \in Nearest(rows, q)}

\* res.rows.map(...) of searchSimilarChunks
SearchResult(q, row) ==
  [chunk |-> [id |-> row.id, chunk_id |-> row.chunk_id, content |-> row.content,
              embedding |-> <<>>, metadata |-> row.metadata],
   similarity |-> CosineSimilarity(q, row.embedding)]

searchSimilarChunks(rows, q, topK) ==
  {[k \in 1..Len(ranked) |-> SearchResult(q, ranked[k])] : ranked \in Ranked(rows, q, topK)}

\* the operator <=> raises an error on vectors of different dimensions
SearchFails(rows, q) == \E r \in rows : Len(r.embedding) # Len(q)

-----------------------------------------------------------------------------
(* PostgreSQLDocumentManager.splitIntoChunks, one action per iteration *)

\* the texts given to splitIntoChunks (indices from 0):
\* a newline at the midpoint of the first window of size 30
TextMid == Rep(15, 97) \o <<10>> \o Rep(34, 97)    \* 15 x "a", "\n", 34 x "a"
\* a ";" just after the midpoint
TextPast == Rep(16, 97) \o <<59>> \o Rep(33, 97)    \* 16 x "a", ";", 33 x "a"
\* ". " at the tentative end of the first window of size 30
TextStop == Rep(30, 97) \o <<46, 32>> \o Rep(28, 98)    \* 30 x "a", ". ", 28 x "b"
\* a newline at 20 and, nearer to the tentative end, a ";" at 25
TextPriority == Rep(20, 97) \o <<10>> \o Rep(4, 98) \o <<59>> \o Rep(34, 99)
\* two paragraphs, for the default parameters
TextParagraphs == Rep(400, 112) \o <<10, 10>> \o Rep(248, 113)
\* "aaa\naaaa!aaaaaaa?" and 33 x "a": with (30, 25) the windows retreat,
\* start falls to -21 and the end of the window is found from the -1 that
\* lastIndexOf returns for the absent double newline
TextRetreat ==
  Rep(3, 97) \o <<10>> \o Rep(4, 97) \o <<33>> \o Rep(7, 97) \o <<63>> \o Rep(33, 97)
\* "aaaaaaa\n!aaaaaaa?" and 33 x "a": as above, and the newline at 7 lies
\* at the midpoint of the second window, which starts at -8
TextRetreatMid ==
  Rep(7, 97) \o <<10, 33>> \o Rep(7, 97) \o <<63>> \o Rep(33, 97)

SplitTexts == {TextTiny, TextShort, TextLong, TextMid, TextPast, TextStop,
               TextPriority, TextParagraphs, TextRetreat, TextRetreatMid}

\* the (chunkSize, overlap) pairs given: positive, overlap < chunkSize
SplitParameters ==
  {[chunkSize |-> 30, overlap |-> 1], [chunkSize |-> 30, overlap |-> 10],
   [chunkSize |-> 30, overlap |-> 25], [chunkSize |-> 40, overlap |-> 10],
   [chunkSize |-> DefaultChunkSize, overlap |-> DefaultOverlap]}

\* windows: the (start, end) of every chunk pushed (history, for the
\* properties)
IdleSplit == [pc |-> "idle", text |-> <<>>, chunkSize |-> 0, overlap |-> 0,
              start |-> 0, chunks |-> <<>>, windows |-> <<>>, result |-> <<>>]

\* lines 115-117: the call
SplitCall(text, chunkSize, overlap) ==
  /\ split.pc \in {"idle", "done"}
  /\ split' = [IdleSplit EXCEPT !.pc = "loop", !.text = text,
                                !.chunkSize = chunkSize, !.overlap = overlap]
  /\ UNCHANGED <<db, nextId, schemaUnique, ing, calls, ask, cli, rag, chat, tools>>

\* lines 119-142: one iteration of the while loop; every call of the model
\* that returns does so within MaxSplitSteps iterations, a loop that never
\* ends (start does not advance) is followed that far
SplitStep ==
  /\ split.pc = "loop"
  /\ split.start < Len(split.text)
  /\ Len(split.chunks) < MaxSplitSteps
  /\ LET end == ChunkEnd(split.text, split.start, split.chunkSize)
     IN  split' = [split EXCEPT
                    !.chunks = Append(@, Trim(Slice(split.text, split.start, end))),
                    !.windows = Append(@, [start |-> split.start, end |-> end]),
                    !.start = end - split.overlap]
  /\ UNCHANGED <<db, nextId, schemaUnique, ing, calls, ask, cli, rag, chat, tools>>

\* lines 119, 144: the loop is left, the short chunks are filtered out
SplitReturn ==
  /\ split.pc = "loop"
  /\ split.start >= Len(split.text)
  /\ split' = [split EXCEPT
                 !.result = SelectSeq(split.chunks,
                                      LAMBDA chunk : Len(chunk) > MinChunkLength),
                 !.pc = "done"]
  /\ UNCHANGED <<db, nextId, schemaUnique, ing, calls, ask, cli, rag, chat, tools>>

-----------------------------------------------------------------------------
(* PostgreSQLRAGPipeline of the tutorial: splitIntoChunks, ingestDocument,
   searchSimilarChunks *)

\* the defaults of the tutorial's splitIntoChunks and searchSimilarChunks
RagChunkSize == 500
RagOverlap == 50
RagTopK == 3

\* Math.max(lastPeriod, lastNewline)
RagBreakPoint(text, end) ==
  LET lastPeriod == LastIndexOf(text, <<46, 32>>, end)    \* ". "
      lastNewline == LastIndexOf(text, <<10>>, end)    \* "\n"
  IN  IF lastPeriod > lastNewline THEN lastPeriod ELSE lastNewline

\* the end of the chunk that begins at start
RagChunkEnd(text, start, chunkSize) ==
  LET end == start + chunkSize
  IN  IF end < Len(text) /\ 2 * RagBreakPoint(text, end) > 2 * start + chunkSize
      THEN RagBreakPoint(text, end) + 1
      ELSE end

RECURSIVE RagSplitLoop(_, _, _, _, _)
RagSplitLoop(text, chunkSize, overlap, start, chunks) ==
  IF start < Len(text)
  THEN LET end == RagChunkEnd(text, start, chunkSize)
       IN  RagSplitLoop(text, chunkSize, overlap, end - overlap,
                        Append(chunks, Trim(Slice(text, start, end))))
  ELSE chunks

\* the tutorial's splitIntoChunks: empty chunks are dropped
RagSplitIntoChunks(text, chunkSize, overlap) ==
  SelectSeq(RagSplitLoop(text, chunkSize, overlap, 0, <<>>),
            LAMBDA chunk : Len(chunk) > 0)

\* the documents given to ingestDocument: a text with a sentence end after
\* the midpoint of its first window, and a text of white space
RagTextBroken == Rep(300, 100) \o <<46, 32>> \o Rep(250, 101)    \* 300 x "d", ". ", 250 x "e"
RagTextBlank == Rep(3, 32)    \* three spaces
RagContents == {TextLong, RagTextBroken, TextShort, TextTiny, RagTextBlank}
RagSources == {"guide", "faq"}

\* before: the store as it was when the call began (history, for the
\* properties); found: the result of searchSimilarChunks; unique: whether
\* the table declares chunk_id UNIQUE
IdleRag == [pc |-> "idle", store |-> {}, nextId |-> 1, unique |-> TRUE,
            source |-> "", content |-> <<>>, textChunks |-> <<>>, i |-> 0,
            embedding |-> <<>>, before |-> {}, calls |-> 0,
            found |-> <<>>]

\* the row written for chunk i; timestamp is the reading of the clock, here
\* the number of the call
RagRow(id, source, i, chunk, embedding, timestamp) ==
  [id |-> id,
   chunk_id |-> <<source, i>>,
   content |-> chunk,
   embedding |-> embedding,
   metadata |-> [source |-> source, chunkIndex |-> i, timestamp |-> timestamp]]

\* INSERT ... ON CONFLICT (chunk_id) DO UPDATE SET content, embedding,
\* metadata: the row with this chunk_id keeps its id and takes the new
\* values; without such a row, a new row is added
Upsert(rows, nextRowId, row) ==
  IF \E r \in rows : r.chunk_id = row.chunk_id
  THEN {IF r.chunk_id = row.chunk_id
        THEN [r EXCEPT !.content = row.content, !.embedding = row.embedding,
                       !.metadata = row.metadata]
        ELSE r : r \in rows}
  ELSE rows \cup {[row EXCEPT !.id = nextRowId]}

\* the call: lines 372-376, up to the first await; a document without
\* chunks skips the loop
ingestDocument(content, source) ==
  /\ rag.pc = "idle"
  /\ rag.calls < MaxRagCalls
  /\ LET textChunks == RagSplitIntoChunks(content, RagChunkSize, RagOverlap)
     IN  rag' = [rag EXCEPT !.pc = IF Len(textChunks) = 0 THEN "done" ELSE "embed",
                            !.source = source, !.content = content,
                            !.textChunks = textChunks, !.i = 0,
                            !.embedding = <<>>, !.before = rag.store,
                            !.found = <<>>, !.calls = rag.calls + 1]
  /\ UNCHANGED <<db, nextId, schemaUnique, ing, calls, ask, cli, split, chat, tools>>

\* await embedContent(chunk) resolves
RagEmbed(embedding) ==
  /\ rag.pc = "embed"
  /\ rag' = [rag EXCEPT !.pc = "insert", !.embedding = embedding]
  /\ UNCHANGED <<db, nextId, schemaUnique, ing, calls, ask, cli, split, chat, tools>>

\* await embedContent(chunk) rejects: the catch block rethrows
RagEmbedFails ==
  /\ rag.pc = "embed"
  /\ rag' = [rag EXCEPT !.pc = "thrown"]
  /\ UNCHANGED <<db, nextId, schemaUnique, ing, calls, ask, cli, split, chat, tools>>

\* await client.query(INSERT ... ON CONFLICT ...) resolves; the statement
\* needs the unique constraint it names and a vector of the column's
\* dimension
RagInsert ==
  /\ rag.pc = "insert"
  /\ rag.unique
  /\ ~DimensionMismatch(rag.embedding)
  /\ LET row == RagRow(rag.nextId, rag.source, rag.i, rag.textChunks[rag.i + 1],
                       rag.embedding, rag.calls)
         added == ~\E r \in rag.store : r.chunk_id = row.chunk_id
     IN  rag' = [rag EXCEPT !.store = Upsert(rag.store, rag.nextId, row),
                            !.nextId = IF added THEN rag.nextId + 1 ELSE rag.nextId,
                            !.i = rag.i + 1,
                            !.pc = IF rag.i + 1 < Len(rag.textChunks)
                                   THEN "embed" ELSE "done"]
  /\ UNCHANGED <<db, nextId, schemaUnique, ing, calls, ask, cli, split, chat, tools>>

\* the statement is rejected, or the connection fails: the catch block
\* rethrows
RagInsertFails ==
  /\ rag.pc = "insert"
  /\ rag' = [rag EXCEPT !.pc = "thrown"]
  /\ UNCHANGED <<db, nextId, schemaUnique, ing, calls, ask, cli, split, chat, tools>>

\* the caller goes on after the call returned or threw
RagReturn ==
  /\ rag.pc \in {"done", "searched", "thrown"}
  /\ rag' = [rag EXCEPT !.pc = "idle"]
  /\ UNCHANGED <<db, nextId, schemaUnique, ing, calls, ask, cli, split, chat, tools>>

\* the tutorial's searchSimilarChunks: the same SELECT as the CLI's
RagSearchSimilarChunks(rows, q, topK) == searchSimilarChunks(rows, q, topK)

\* a search once ingestDocument has returned; it throws, and changes
\* nothing, when the query vector has another dimension than the rows
RagSearch(q) ==
  /\ rag.pc = "done"
  /\ ~SearchFails(rag.store, q)
  /\ \E found \in RagSearchSimilarChunks(rag.store, q, RagTopK) :
       rag' = [rag EXCEPT !.pc = "searched", !.found = found]
  /\ UNCHANGED <<db, nextId, schemaUnique, ing, calls, ask, cli, split, chat, tools>>

-----------------------------------------------------------------------------
(* The streaming chat assistant of the tutorial: addMessage,
   initializeAssistant, streamingChat, clearConversation *)

SystemPrompt == <<116, 117, 116, 111, 114>>    \* "tutor"
SystemMessage == [role |-> "system", content |-> SystemPrompt]

\* what the user types, and what one chunk of the stream carries: a text
\* (empty when chunk.text is missing) and usageMetadata (NoUsage when
\* missing; a count that is missing reads as 0)
ChatInputs == {<<104, 105>>, <<119, 104, 121>>}    \* "hi", "why"
NoUsage == [missing |-> TRUE]
ChatChunks ==
  {[text |-> <<111, 107>>, usageMetadata |-> NoUsage],    \* "ok"
   [text |-> <<>>, usageMetadata |-> [promptTokenCount |-> 2]],
   [text |-> <<46>>, usageMetadata |-> [promptTokenCount |-> 2,    \* "."
                                         candidatesTokenCount |-> 1]]}

\* x || 0 for a count that may be missing
CountOrZero(usage, field) == IF field \in DOMAIN usage THEN usage[field] ELSE 0

\* turns: calls of streamingChat; chunks: chunks read from the running
\* stream; failed: turns that ended in the catch block (history, for the
\* properties)
IdleChat == [pc |-> "start", messages |-> <<>>, totalTokensUsed |-> 0,
             fullResponse |-> <<>>, chunkUsage |-> NoUsage,
             turns |-> 0, chunks |-> 0, failed |-> 0]

\* messages.push({ role, content })
addMessage(messages, role, content) ==
  Append(messages, [role |-> role, content |-> content])

initializeAssistant ==
  /\ chat.pc = "start"
  /\ chat' = [chat EXCEPT !.pc = "prompt",
                          !.messages = addMessage(chat.messages, "system", SystemPrompt)]
  /\ UNCHANGED <<db, nextId, schemaUnique, ing, calls, ask, cli, split, rag, tools>>

\* the call, up to the await of generateContentStream
streamingChat(userMessage) ==
  /\ chat.pc = "prompt"
  /\ chat.turns < MaxChatTurns
  /\ chat' = [chat EXCEPT !.pc = "request",
                          !.messages = addMessage(chat.messages, "user", userMessage),
                          !.turns = chat.turns + 1]
  /\ UNCHANGED <<db, nextId, schemaUnique, ing, calls, ask, cli, split, rag, tools>>

\* generateContentStream resolves: the stream is open
ChatStreamOpens ==
  /\ chat.pc = "request"
  /\ chat' = [chat EXCEPT !.pc = "stream", !.fullResponse = <<>>,
                          !.chunkUsage = NoUsage, !.chunks = 0]
  /\ UNCHANGED <<db, nextId, schemaUnique, ing, calls, ask, cli, split, rag, tools>>

\* one iteration of the for-await loop
ChatChunk(chunk) ==
  /\ chat.pc = "stream"
  /\ chat.chunks < MaxChatChunks
  /\ chat' = [chat EXCEPT !.fullResponse = chat.fullResponse \o chunk.text,
                          !.chunkUsage = IF chunk.usageMetadata # NoUsage
                                         THEN chunk.usageMetadata
                                         ELSE chat.chunkUsage,
                          !.chunks = chat.chunks + 1]
  /\ UNCHANGED <<db, nextId, schemaUnique, ing, calls, ask, cli, split, rag, tools>>

\* the stream ends: the reply is recorded and the tokens are counted
ChatStreamEnds ==
  /\ chat.pc = "stream"
  /\ chat' = [chat EXCEPT !.pc = "prompt",
                          !.messages = addMessage(chat.messages, "assistant",
                                                  chat.fullResponse),
                          !.totalTokensUsed =
                            IF chat.chunkUsage # NoUsage
                            THEN chat.totalTokensUsed
                                   + CountOrZero(chat.chunkUsage, "promptTokenCount")
                                   + CountOrZero(chat.chunkUsage, "candidatesTokenCount")
                            ELSE chat.totalTokensUsed]
  /\ UNCHANGED <<db, nextId, schemaUnique, ing, calls, ask, cli, split, rag, tools>>

\* generateContentStream rejects, or the stream throws while it is read:
\* the catch block logs the error and returns the apology
ChatThrow ==
  /\ chat.pc \in {"request", "stream"}
  /\ chat' = [chat EXCEPT !.pc = "prompt", !.failed = chat.failed + 1]
  /\ UNCHANGED <<db, nextId, schemaUnique, ing, calls, ask, cli, split, rag, tools>>

\* messages.find(system); messages.length = 0; push the system message
clearConversation ==
  /\ chat.pc = "prompt"
  /\ LET found == {k \in 1..Len(chat.messages) : chat.messages[k].role = "system"}
     IN  chat' = [chat EXCEPT !.messages = IF found = {} THEN <<>>
                                           ELSE <<chat.messages[SetMin(found)]>>]
  /\ UNCHANGED <<db, nextId, schemaUnique, ing, calls, ask, cli, split, rag, tools>>

-----------------------------------------------------------------------------
(* The tool-calling assistant: calculate, saveNote, getWeather, runTool,
   streamingChatWithTools *)

\* a thrown Error, and a returned value
Thrown(message) == [threw |-> TRUE, message |-> message]
Returned(value) == [threw |-> FALSE, value |-> value]

Abs(n) == IF n < 0 THEN -n ELSE n

\* the greatest common divisor of two naturals, Gcd(0, 0) = 0
RECURSIVE Gcd(_, _)
Gcd(m, n) == IF n = 0 THEN m ELSE Gcd(n, m % n)

\* a / b for integers a and b # 0: the quotient itself when b divides a,
\* otherwise the fraction in lowest terms with a positive denominator
\* (7 / -2 is [num |-> -7, den |-> 2], the number -3.5). The code holds the
\* nearest double; -0 is not told apart from 0.
Quotient(a, b) ==
  LET g == Gcd(Abs(a), Abs(b))
      num == (IF b < 0 THEN -a ELSE a) \div g
      den == Abs(b) \div g
  IN  IF den = 1 THEN num ELSE [num |-> num, den |-> den]

calculate(operation, a, b) ==
  CASE operation = "add" -> Returned(a + b)
    [] operation = "subtract" -> Returned(a - b)
    [] operation = "multiply" -> Returned(a * b)
    [] operation = "divide" ->
         IF b = 0 THEN Thrown(<<"Cannot divide by zero">>)
         ELSE Returned(Quotient(a, b))
    [] operation = "percentage" -> Returned(Quotient(a * b, 100))
    [] OTHER -> Thrown(<<"Unknown operation: ", operation>>)

\* writable: whether writeFileSync succeeds
saveNote(filename, content, writable) ==
  IF writable THEN Returned(<<"Successfully saved to ", filename, ".txt">>)
  ELSE Thrown(<<"Failed to save file: ", "Error">>)

\* city.toLowerCase().replace(/\s+/g, "-"): every run of white space
\* becomes one hyphen
RECURSIVE CityKeyFrom(_, _)
CityKeyFrom(city, k) ==
  IF k > Len(city) THEN <<>>
  ELSE IF city[k] \in WhiteSpace
       THEN <<45>> \o CityKeyFrom(city, SkipSpaceForward(city, k))    \* "-"
       ELSE <<city[k]>> \o CityKeyFrom(city, k + 1)

CityKey(city) == CityKeyFrom(ToLowerCase(city), 1)

Tokyo == <<116, 111, 107, 121, 111>>    \* "tokyo"
London == <<108, 111, 110, 100, 111, 110>>    \* "london"
NewYork == <<110, 101, 119, 45, 121, 111, 114, 107>>    \* "new-york"
SanFrancisco == <<115, 97, 110, 45, 102, 114, 97, 110, 99, 105, 115, 99, 111>>    \* "san-francisco"

weatherData ==
  [key \in {Tokyo, London, NewYork, SanFrancisco} |->
     CASE key = Tokyo -> [temp |-> 22, condition |-> "sunny", humidity |-> 65]
       [] key = London -> [temp |-> 15, condition |-> "rainy", humidity |-> 80]
       [] key = NewYork -> [temp |-> 18, condition |-> "cloudy", humidity |-> 70]
       [] OTHER -> [temp |-> 20, condition |-> "foggy", humidity |-> 75]]

\* what an object literal inherits from Object.prototype under a key that
\* toLowerCase can produce: "constructor" and "__proto__" (every other
\* property of Object.prototype has an upper-case letter in its name)
Constructor == <<99, 111, 110, 115, 116, 114, 117, 99, 116, 111, 114>>
Proto == <<95, 95, 112, 114, 111, 116, 111, 95, 95>>

ObjectPrototype ==
  [key \in {Constructor, Proto} |->
     IF key = Constructor THEN [function |-> "Object"]
     ELSE [object |-> "Object.prototype"]]

\* weatherData[cityKey]: the own property, else the inherited one, else
\* undefined ({})
WeatherLookup(cityKey) ==
  IF cityKey \in DOMAIN weatherData THEN {weatherData[cityKey]}
  ELSE IF cityKey \in DOMAIN ObjectPrototype THEN {ObjectPrototype[cityKey]}
  ELSE {}

\* every value the lookup can find is truthy, so only undefined throws
getWeather(city) ==
  LET weather == WeatherLookup(CityKey(city))
  IN  IF weather = {}
      THEN Thrown(<<"Weather data not available for ", city,
                    ". Available: tokyo, london, new-york, san-francisco">>)
      ELSE Returned(CHOOSE w \in weather : TRUE)

runTool(functionCall, writable) ==
  CASE functionCall.name = "calculate" ->
         calculate(functionCall.args.operation, functionCall.args.a,
                   functionCall.args.b)
    [] functionCall.name = "saveNote" ->
         saveNote(functionCall.args.filename, functionCall.args.content, writable)
    [] functionCall.name = "getWeather" -> getWeather(functionCall.args.city)
    [] OTHER -> Thrown(<<"Unknown function: ", functionCall.name>>)

\* the function calls the model emits
CallDivide == [name |-> "calculate", args |-> [operation |-> "divide", a |-> 6, b |-> 3]]
CallDivideByZero == [name |-> "calculate", args |-> [operation |-> "divide", a |-> 1, b |-> 0]]
CallDivideNegative == [name |-> "calculate", args |-> [operation |-> "divide", a |-> 7, b |-> -2]]
CallWeather == [name |-> "getWeather",
                args |-> [city |-> <<78, 101, 119, 32, 32, 89, 111, 114, 107>>]]    \* "New  York"
CallUnknownCity == [name |-> "getWeather",
                    args |-> [city |-> <<80, 97, 114, 105, 115>>]]    \* "Paris"
CallInheritedCity == [name |-> "getWeather",
                      args |-> [city |-> <<67>> \o Tail(Constructor)]]    \* "Constructor"
CallSaveNote == [name |-> "saveNote", args |-> [filename |-> "todo", content |-> "milk"]]
CallUnknownFunction == [name |-> "sendEmail", args |-> [to |-> "bob"]]

\* the chunks of a stream: text, functionCalls, usageMetadata
ToolChunks ==
  {[text |-> <<111, 107>>, functionCalls |-> <<>>, usageMetadata |-> NoUsage],    \* "ok"
   [text |-> <<>>, functionCalls |-> <<CallDivideByZero, CallDivide>>,
    usageMetadata |-> [promptTokenCount |-> 2, candidatesTokenCount |-> 1]],
   [text |-> <<>>, functionCalls |-> <<CallWeather, CallInheritedCity>>,
    usageMetadata |-> NoUsage],
   [text |-> <<46>>, functionCalls |-> <<CallUnknownFunction, CallSaveNote>>,    \* "."
    usageMetadata |-> NoUsage],
   [text |-> <<>>, functionCalls |-> <<CallUnknownCity, CallDivideNegative>>,
    usageMetadata |-> NoUsage]}

ToolSystemPrompt == <<104, 101, 108, 112>>    \* "help"
ToolInputs == {<<104, 105>>}    \* "hi"
Apology == <<83, 111, 114, 114, 121>>    \* "Sorry"

\* calls: the calls of the round (firstCalls, then moreCalls); results: the
\* round's results (firstResults, then roundResults); text: initialText,
\* then textOut; first: whether the stream read is the initial one;
\* turns, chunks: calls of streamingChatWithTools and chunks read so far
IdleTools == [pc |-> "start", messages |-> <<>>,
              stats |-> [messagesCount |-> 0, toolsUsed |-> 0, tokensUsed |-> 0],
              userMessage |-> <<>>, first |-> TRUE, text |-> <<>>,
              chunkUsage |-> NoUsage, calls |-> <<>>, i |-> 0, results |-> <<>>,
              transcript |-> <<>>, turns |-> 0, chunks |-> 0]

\* addMessage of the tool-calling assistant: messagesCount counts the
\* messages that are not the system message
ToolAddMessage(t, role, content) ==
  [t EXCEPT !.messages = Append(t.messages, [role |-> role, content |-> content]),
            !.stats.messagesCount = IF role # "system" THEN t.stats.messagesCount + 1
                                    ELSE t.stats.messagesCount]

\* stats.tokensUsed += prompt + candidates, when a usage was seen
ToolAddTokens(t) ==
  IF t.chunkUsage # NoUsage
  THEN [t EXCEPT !.stats.tokensUsed = t.stats.tokensUsed
                   + CountOrZero(t.chunkUsage, "promptTokenCount")
                   + CountOrZero(t.chunkUsage, "candidatesTokenCount")]
  ELSE t

ToolInitializeAssistant ==
  /\ tools.pc = "start"
  /\ tools' = [ToolAddMessage(tools, "system", ToolSystemPrompt) EXCEPT !.pc = "prompt"]
  /\ UNCHANGED <<db, nextId, schemaUnique, ing, calls, ask, cli, split, rag, chat>>

\* the call, up to the await of the initial generateContentStream
streamingChatWithTools(userMessage) ==
  /\ tools.pc = "prompt"
  /\ tools.turns < MaxToolTurns
  /\ tools' = [ToolAddMessage(tools, "user", userMessage) EXCEPT
                 !.pc = "request", !.userMessage = userMessage, !.first = TRUE,
                 !.turns = tools.turns + 1]
  /\ UNCHANGED <<db, nextId, schemaUnique, ing, calls, ask, cli, split, rag, chat>>

\* generateContentStream resolves (initial or follow-up): the collectors
\* are reset; chunkUsage belongs to the initial stream only
ToolStreamOpens ==
  /\ tools.pc = "request"
  /\ tools' = [tools EXCEPT !.pc = "stream", !.calls = <<>>, !.text = <<>>,
                            !.chunkUsage = IF tools.first THEN NoUsage
                                           ELSE tools.chunkUsage]
  /\ UNCHANGED <<db, nextId, schemaUnique, ing, calls, ask, cli, split, rag, chat>>

\* one iteration of the for-await loop: text and function calls are
\* collected in arrival order
ToolChunk(chunk) ==
  /\ tools.pc = "stream"
  /\ tools.chunks < MaxToolChunks
  /\ tools' = [tools EXCEPT !.text = tools.text \o chunk.text,
                            !.calls = tools.calls \o chunk.functionCalls,
                            !.chunkUsage = IF tools.first /\ chunk.usageMetadata # NoUsage
                                           THEN chunk.usageMetadata
                                           ELSE tools.chunkUsage,
                            !.chunks = tools.chunks + 1]
  /\ UNCHANGED <<db, nextId, schemaUnique, ing, calls, ask, cli, split, rag, chat>>

\* the stream ends without function calls: the reply is recorded, the
\* tokens of the initial stream are counted, the turn is over
ToolStreamEndsWithText ==
  /\ tools.pc = "stream"
  /\ Len(tools.calls) = 0
  /\ tools' = [ToolAddTokens(ToolAddMessage(tools, "assistant", tools.text))
                 EXCEPT !.pc = "prompt"]
  /\ UNCHANGED <<db, nextId, schemaUnique, ing, calls, ask, cli, split, rag, chat>>

\* the stream ends with function calls: a round begins; the first round
\* starts the transcript with the user's prompt
ToolStreamEndsWithCalls ==
  /\ tools.pc = "stream"
  /\ Len(tools.calls) > 0
  /\ tools' = [tools EXCEPT !.pc = "run", !.i = 0, !.results = <<>>,
                            !.transcript =
                              IF tools.first
                              THEN <<[role |-> "user",
                                      parts |-> <<[text |-> tools.userMessage]>>]>>
                              ELSE tools.transcript]
  /\ UNCHANGED <<db, nextId, schemaUnique, ing, calls, ask, cli, split, rag, chat>>

\* the try/catch around runTool: the result, or the error's message
ToolResult(call, writable) ==
  LET outcome == runTool(call, writable)
  IN  [call |-> call,
       result |-> IF outcome.threw THEN [error |-> outcome.message]
                  ELSE [result |-> outcome.value]]

\* mutant of the loop: a tool that throws ends the turn in the outer catch
ToolRun_AbortOnThrow(writable) ==
  /\ tools.pc = "run"
  /\ tools.i < Len(tools.calls)
  /\ LET call == tools.calls[tools.i + 1]
     IN  IF runTool(call, writable).threw
         THEN tools' = [ToolAddMessage(tools, "assistant", Apology) EXCEPT
                          !.pc = "prompt",
                          !.stats.toolsUsed = tools.stats.toolsUsed + 1]
         ELSE tools' = [tools EXCEPT !.stats.toolsUsed = tools.stats.toolsUsed + 1,
                                     !.results = Append(tools.results,
                                                        ToolResult(call, writable)),
                                     !.i = tools.i + 1]
  /\ UNCHANGED <<db, nextId, schemaUnique, ing, calls, ask, cli, split, rag, chat>>

\* one iteration of the loop over the round's calls
ToolRun(writable) ==
  /\ tools.pc = "run"
  /\ tools.i < Len(tools.calls)
  /\ LET call == tools.calls[tools.i + 1]
     IN  tools' = [tools EXCEPT !.stats.toolsUsed = tools.stats.toolsUsed + 1,
                                !.results = Append(tools.results,
                                                   ToolResult(call, writable)),
                                !.i = tools.i + 1]
  /\ UNCHANGED <<db, nextId, schemaUnique, ing, calls, ask, cli, split, rag, chat>>

\* the two transcript entries of one result
TranscriptEntries(r) ==
  <<[role |-> "model", parts |-> <<[functionCall |-> r.call]>>],
    [role |-> "function",
     parts |-> <<[functionResponse |-> [name |-> r.call.name,
                                        response |-> r.result]]>>]>>

RECURSIVE SeedTranscript(_, _)
SeedTranscript(transcript, results) ==
  IF results = <<>> THEN transcript
  ELSE SeedTranscript(transcript \o TranscriptEntries(Head(results)), Tail(results))

\* the loop over the round's results, then the await of the follow-up
\* generateContentStream
ToolSeed ==
  /\ tools.pc = "run"
  /\ tools.i = Len(tools.calls)
  /\ tools' = [tools EXCEPT !.pc = "request", !.first = FALSE,
                            !.transcript = SeedTranscript(tools.transcript,
                                                          tools.results)]
  /\ UNCHANGED <<db, nextId, schemaUnique, ing, calls, ask, cli, split, rag, chat>>

\* a generateContentStream call rejects, or a stream throws while it is
\* read: the outer catch block records the apology
ToolThrow ==
  /\ tools.pc \in {"request", "stream"}
  /\ tools' = [ToolAddMessage(tools, "assistant", Apology) EXCEPT !.pc = "prompt"]
  /\ UNCHANGED <<db, nextId, schemaUnique, ing, calls, ask, cli, split, rag, chat>>

-----------------------------------------------------------------------------
(* PostgreSQLDocumentManager.ingestFile, one action per await *)

\* before: the table as it was when the call began (history, for the
\* properties)
IdleCall == [pc |-> "idle", file |-> NoFile, textChunks |-> <<>>, i |-> 0,
             embedding |-> <<>>, before |-> {}]

NoAnswer == [kind |-> "", sources |-> <<>>]

\* sawEmpty: whether the table was empty when getStats ran; searched:
\* whether the SELECT returned; embedCalls, generateCalls: calls made to
\* embedContent and generateContent; failure: the awaited call that threw,
\* "" if none did (history, for the properties)
IdleAsk == [pc |-> "idle", maxResults |-> 0, stats |-> NoStats, sawEmpty |-> FALSE, queryEmbedding |-> <<>>,
            searched |-> FALSE, searchResults |-> <<>>, context |-> <<>>,
            embedCalls |-> 0, generateCalls |-> 0, failure |-> "",
            result |-> NoAnswer]

\* log: the lines printed; disconnects: calls of disconnect; discovered:
\* whether the files under the path were listed; interrupted: whether the
\* SIGINT handler has run; sigints: the signals received
\* didConnect: whether connect resolved; lines: lines read by the
\* interactive session; printed: lines printed so far by the discovery
IdleCli == [pc |-> "idle", command |-> "", input |-> MissingEntry(NoPath), type |-> <<>>,
            files |-> <<>>, i |-> 0, log |-> <<>>, connected |-> FALSE,
            didConnect |-> FALSE, disconnects |-> 0, discovered |-> FALSE,
            interrupted |-> FALSE, sigints |-> 0, lines |-> 0, printed |-> 0]

Init ==
  /\ db = {}
  /\ nextId = 1
  /\ schemaUnique \in BOOLEAN
  /\ ing = [w \in Clients |-> IdleCall]
  /\ calls = 0
  /\ ask = IdleAsk
  /\ cli = IdleCli
  /\ split = IdleSplit
  /\ rag = IdleRag
  /\ chat = IdleChat
  /\ tools = IdleTools

\* the call: line 148, up to the first await
ingestFile(w, file) ==
  /\ ing[w].pc = "idle"
  /\ ing' = [ing EXCEPT ![w] = [IdleCall EXCEPT !.pc = "delete", !.file = file,
                                                !.before = db]]

\* a caller hands one of the files to ingestFile
StartIngestOf(w, limit, files) ==
  /\ calls < limit
  /\ \E file \in files : ingestFile(w, file)
  /\ calls' = calls + 1
  /\ UNCHANGED <<db, nextId, schemaUnique, ask, cli, split, rag, chat, tools>>

StartIngest(w, limit) == StartIngestOf(w, limit, ProcessedFiles)

\* lines 152-156: the DELETE completes, the text is split
IngestDelete(w) ==
  /\ ing[w].pc = "delete"
  /\ LET file == ing[w].file
         textChunks == splitIntoChunks(file.content, DefaultChunkSize, DefaultOverlap)
     IN  /\ db' = DeleteBySource(db, file.path)
         /\ ing' = [ing EXCEPT ![w].textChunks = textChunks,
                               ![w].i = 0,
                               ![w].pc = IF 0 < Len(textChunks) THEN "embed" ELSE "done"]
  /\ UNCHANGED <<nextId, schemaUnique, calls, ask, cli, split, rag, chat, tools>>

\* lines 162-163: embedContent returns a vector
IngestEmbed(w) ==
  /\ ing[w].pc = "embed"
  /\ \E v \in ChunkVectors :
       ing' = [ing EXCEPT ![w].embedding = v, ![w].pc = "insert"]
  /\ UNCHANGED <<db, nextId, schemaUnique, calls, ask, cli, split, rag, chat, tools>>

\* lines 166-188: the INSERT completes, or the store rejects the row
IngestInsert(w) ==
  /\ ing[w].pc = "insert"
  /\ LET c == ing[w]
         row == ChunkRow(nextId, c.file, c.i, c.textChunks[c.i + 1], c.embedding)
     IN  IF DimensionMismatch(c.embedding) \/ DuplicateKey(db, row.chunk_id)
         THEN /\ ing' = [ing EXCEPT ![w].pc = "failed"]
              /\ UNCHANGED <<db, nextId>>
         ELSE /\ db' = db \cup {row}
              /\ nextId' = nextId + 1
              /\ ing' = [ing EXCEPT ![w].i = c.i + 1,
                                    ![w].pc = IF c.i + 1 < Len(c.textChunks)
                                              THEN "embed" ELSE "done"]
  /\ UNCHANGED <<schemaUnique, calls, ask, cli, split, rag, chat, tools>>

\* lines 191-194: an awaited call (the DELETE, embedContent, the INSERT)
\* throws; the error is logged and rethrown
IngestThrow(w) ==
  /\ ing[w].pc \in {"delete", "embed", "insert"}
  /\ ing' = [ing EXCEPT ![w].pc = "failed"]
  /\ UNCHANGED <<db, nextId, schemaUnique, calls, ask, cli, split, rag, chat, tools>>

\* the caller takes the outcome
IngestReturn(w) ==
  /\ ing[w].pc \in {"done", "failed"}
  /\ ing' = [ing EXCEPT ![w] = IdleCall]
  /\ UNCHANGED <<db, nextId, schemaUnique, calls, ask, cli, split, rag, chat, tools>>

\* PostgreSQLDocumentManager.clearDatabase
\* (a DELETE that throws leaves the table as it is)
clearDatabase ==
  /\ db' = {}
  /\ UNCHANGED <<nextId, schemaUnique, ing, calls, ask, cli, split, rag, chat, tools>>

\* no call is running
Quiet == ask.pc = "idle" /\ \A w \in Clients : ing[w].pc = "idle"

-----------------------------------------------------------------------------
(* PostgreSQLDocumentManager.askQuestion, one action per await *)

NoDocuments == [kind |-> "noDocuments", sources |-> <<>>]
NoRelevant == [kind |-> "noRelevant", sources |-> <<>>]
ErrorAnswer == [kind |-> "error", sources |-> <<>>]

\* mutant of the gate: the similarity test dropped
NotRelevant_EmptyOnly(searchResults) == Len(searchResults) = 0

\* mutant of the gate: the test for an empty list dropped
NotRelevant_NoEmptyTest(searchResults) ==
  Len(searchResults) > 0 /\ SimLess(searchResults[1].similarity, Threshold)

\* line 253: the gate on the ranked list
NotRelevant(searchResults) ==
  Len(searchResults) = 0 \/ SimLess(searchResults[1].similarity, Threshold)

\* lines 258-261: one context entry per search result, in ranked order
BuildContext(searchResults) ==
  [k \in 1..Len(searchResults) |->
     [source |-> basename(searchResults[k].chunk.metadata.source),
      content |-> searchResults[k].chunk.content]]

\* Array.from(new Set(list)): first occurrences, in order
RECURSIVE Dedupe(_)
Dedupe(list) ==
  IF list = <<>> THEN <<>>
  ELSE LET front == Dedupe(SubSeq(list, 1, Len(list) - 1))
           last == list[Len(list)]
       IN  IF \E k \in 1..Len(front) : front[k] = last THEN front
           ELSE Append(front, last)

\* line 284
SourceList(searchResults) ==
  Dedupe([k \in 1..Len(searchResults) |->
            basename(searchResults[k].chunk.metadata.source)])

\* mutant of the empty-store test: the wrong comparison
NoDocumentsIngested_Negative(stats) == stats.totalChunks < 0

\* line 245
NoDocumentsIngested(stats) == stats.totalChunks = 0

\* the call: up to the await of getStats
askQuestion(maxResults) ==
  /\ ask.pc = "idle"
  /\ ask' = [IdleAsk EXCEPT !.pc = "getStats", !.maxResults = maxResults]
  /\ UNCHANGED <<db, nextId, schemaUnique, ing, calls, cli, split, rag, chat, tools>>

\* lines 244-251: getStats returns (the zeros when its query threw); the
\* sentinel, or searchSimilarChunks is entered and calls embedContent
AskGetStats ==
  /\ ask.pc = "getStats"
  /\ \E ok \in BOOLEAN :
       LET stats == IF ok THEN StatsOf(db) ELSE NoStats
       IN  ask' = IF NoDocumentsIngested(stats)
                  THEN [ask EXCEPT !.stats = stats, !.sawEmpty = (db = {}),
                                   !.failure = IF ok THEN "" ELSE "getStats",
                                   !.result = NoDocuments, !.pc = "done"]
                  ELSE [ask EXCEPT !.stats = stats, !.sawEmpty = (db = {}),
                                   !.embedCalls = @ + 1, !.pc = "embed"]
  /\ UNCHANGED <<db, nextId, schemaUnique, ing, calls, cli, split, rag, chat, tools>>

\* lines 201-219: embedContent returns; the SELECT is sent
AskEmbed ==
  /\ ask.pc = "embed"
  /\ \E v \in QueryVectors :
       ask' = [ask EXCEPT !.queryEmbedding = v, !.pc = "search"]
  /\ UNCHANGED <<db, nextId, schemaUnique, ing, calls, cli, split, rag, chat, tools>>

\* lines 219-280: the SELECT returns; the gate; the context and the prompt
\* are built and generateContent is called
AskSearch ==
  /\ ask.pc = "search"
  /\ IF SearchFails(db, ask.queryEmbedding)
     THEN ask' = [ask EXCEPT !.failure = "search", !.result = ErrorAnswer,
                             !.pc = "done"]
     ELSE \E searchResults \in searchSimilarChunks(db, ask.queryEmbedding, ask.maxResults) :
            ask' = IF NotRelevant(searchResults)
                   THEN [ask EXCEPT !.searched = TRUE, !.searchResults = searchResults,
                                    !.result = NoRelevant, !.pc = "done"]
                   ELSE [ask EXCEPT !.searched = TRUE, !.searchResults = searchResults,
                                    !.context = BuildContext(searchResults),
                                    !.generateCalls = @ + 1, !.pc = "generate"]
  /\ UNCHANGED <<db, nextId, schemaUnique, ing, calls, cli, split, rag, chat, tools>>

\* lines 280-287: generateContent returns; the sources are appended
AskGenerate ==
  /\ ask.pc = "generate"
  /\ ask' = [ask EXCEPT !.result = [kind |-> "answer",
                                    sources |-> SourceList(ask.searchResults)],
                        !.pc = "done"]
  /\ UNCHANGED <<db, nextId, schemaUnique, ing, calls, cli, split, rag, chat, tools>>

\* lines 236-239, 289-292: an awaited call (embedContent, the SELECT,
\* generateContent) throws; askQuestion returns the error text
AskThrow ==
  /\ ask.pc \in {"embed", "search", "generate"}
  /\ ask' = [ask EXCEPT !.failure = ask.pc, !.result = ErrorAnswer, !.pc = "done"]
  /\ UNCHANGED <<db, nextId, schemaUnique, ing, calls, cli, split, rag, chat, tools>>

\* the caller takes the answer
AskReturn ==
  /\ ask.pc = "done"
  /\ ask' = IdleAsk
  /\ UNCHANGED <<db, nextId, schemaUnique, ing, calls, cli, split, rag, chat, tools>>

-----------------------------------------------------------------------------
(* The `ingest` command of cli.ts, one action per await *)

\* files.filter(f => f.type === options.type) when --type is given
FilterByType(files, type) ==
  IF type = <<>> THEN files ELSE SelectSeq(files, LAMBDA f : f.type = type)

\* lines 46-55: a single file or a directory tree
Discover(input) ==
  IF input.kind = "file"
  THEN LET r == processFile(input)
       IN  [files |-> IF r.ok THEN <<r.file>> ELSE <<>>, log |-> r.log]
  ELSE processDirectory(input, TRUE)

\* the command is started with its arguments
ingestCommand ==
  /\ cli.pc = "idle"
  /\ Quiet
  /\ \E input \in InputPaths, type \in TypeOptions :
       cli' = [IdleCli EXCEPT !.pc = "connect", !.command = "ingest",
                              !.input = input, !.type = type]
  /\ UNCHANGED <<db, nextId, schemaUnique, ing, calls, ask, split, rag, chat, tools>>

\* the query, interactive, stats and clear commands are started
otherCommand ==
  /\ cli.pc = "idle"
  /\ Quiet
  /\ \E command \in {"query", "interactive", "stats", "clear"} :
       cli' = [IdleCli EXCEPT !.pc = "connect", !.command = command]
  /\ UNCHANGED <<db, nextId, schemaUnique, ing, calls, ask, split, rag, chat, tools>>

\* lines 37, 102, 140, 199, 225: connect resolves
CliConnect ==
  /\ cli.pc = "connect"
  /\ cli' = [cli EXCEPT !.connected = TRUE, !.didConnect = TRUE,
                        !.pc = CASE cli.command = "ingest" -> "discover"
                                 [] cli.command \in {"query", "interactive"} -> "stats"
                                 [] cli.command = "stats" -> "showStats"
                                 [] OTHER -> "clear"]
  /\ UNCHANGED <<db, nextId, schemaUnique, ing, calls, ask, split, rag, chat, tools>>

\* the line the catch block of a command prints: lines 87, 119, 185, 209,
\* 229
FailureLine(command) ==
  CASE command = "ingest" -> "ingestionFailed"
    [] command = "query" -> "queryFailed"
    [] command = "interactive" -> "interactiveFailed"
    [] command = "stats" -> "statisticsFailed"
    [] OTHER -> "clearFailed"

\* lines 89-91, 121-123, 211-213, 231-233, document-manager.ts 53-54: the
\* finally block calls disconnect, which awaits client.end()
CliFinally(c) == [c EXCEPT !.disconnects = @ + 1, !.pc = "ending"]

\* line 37, 86-91, and the catch of the other commands: connect rejects;
\* the interactive command has no finally block
CliConnectFails ==
  /\ cli.pc = "connect"
  /\ LET failed == [cli EXCEPT !.log = Append(@, Message(FailureLine(cli.command), NoPath))]
     IN  cli' = IF cli.command = "interactive" THEN [failed EXCEPT !.pc = "exit"]
                ELSE CliFinally(failed)
  /\ UNCHANGED <<db, nextId, schemaUnique, ing, calls, ask, split, rag, chat, tools>>

\* lines 41-46, 89-91: await pathExists; a missing path ends the command
CliDiscover ==
  /\ cli.pc = "discover"
  /\ IF cli.input.kind = "missing"
     THEN cli' = CliFinally([cli EXCEPT !.log = Append(@, Message("pathMissing",
                                                                 cli.input.path))])
     ELSE cli' = [cli EXCEPT !.printed = 0, !.pc = "discovering"]
  /\ UNCHANGED <<db, nextId, schemaUnique, ing, calls, ask, split, rag, chat, tools>>

\* lines 47-55: the discovery goes on, across the awaits of processFile and
\* processDirectory, up to the next line it prints
CliDiscoverPrint ==
  /\ cli.pc = "discovering"
  /\ LET found == Discover(cli.input)
     IN  /\ cli.printed < Len(found.log)
         /\ cli' = [cli EXCEPT !.log = Append(@, found.log[cli.printed + 1]),
                               !.printed = @ + 1]
  /\ UNCHANGED <<db, nextId, schemaUnique, ing, calls, ask, split, rag, chat, tools>>

\* lines 72-80: the loop goes on with the file at index k: its line is
\* printed and ingestFile runs up to its first await; after the last file
\* getStats is awaited
CliIngestNext(c, k) ==
  IF k < Len(c.files)
  THEN /\ cli' = [c EXCEPT !.i = k,
                           !.log = Append(@, Message("processing", c.files[k + 1].path)),
                           !.pc = "await"]
       /\ ing' = [ing EXCEPT !["w1"] = [IdleCall EXCEPT !.pc = "delete",
                                                        !.file = c.files[k + 1],
                                                        !.before = db]]
  ELSE /\ cli' = [c EXCEPT !.i = k, !.pc = "finalStats"]
       /\ ing' = [ing EXCEPT !["w1"] = IdleCall]

\* lines 55-76: the discovery returns; the files are filtered; the loop
\* begins
CliDiscoverDone ==
  /\ cli.pc = "discovering"
  /\ LET found == Discover(cli.input)
         files == FilterByType(found.files, cli.type)
     IN  /\ cli.printed = Len(found.log)
         /\ IF Len(files) = 0
            THEN /\ cli' = CliFinally([cli EXCEPT
                                         !.files = files, !.discovered = TRUE,
                                         !.log = Append(@, Message("noValidFiles", NoPath))])
                 /\ ing' = ing
            ELSE CliIngestNext([cli EXCEPT !.files = files, !.discovered = TRUE], 0)
  /\ UNCHANGED <<db, nextId, schemaUnique, calls, ask, split, rag, chat, tools>>

\* lines 76-80: ingestFile resolved (it printed its success line); the loop
\* goes on
CliIngestDone ==
  /\ cli.pc = "await"
  /\ ing["w1"].pc = "done"
  /\ CliIngestNext([cli EXCEPT !.log = Append(@, Message("success", ing["w1"].file.path))],
                   cli.i + 1)
  /\ UNCHANGED <<db, nextId, schemaUnique, calls, ask, split, rag, chat, tools>>

\* lines 76, 86-91: ingestFile rejected (it printed its error line); the
\* catch and the finally block of the command
CliIngestFailed ==
  /\ cli.pc = "await"
  /\ ing["w1"].pc = "failed"
  /\ ing' = [ing EXCEPT !["w1"] = IdleCall]
  /\ cli' = CliFinally([cli EXCEPT
                          !.log = (@ \o <<Message("errorIngest", ing["w1"].file.path)>>)
                                    \o <<Message("ingestionFailed", NoPath)>>])
  /\ UNCHANGED <<db, nextId, schemaUnique, calls, ask, split, rag, chat, tools>>

\* lines 80-91: getStats returns, the final statistics are printed
CliFinalStats ==
  /\ cli.pc = "finalStats"
  /\ cli' = CliFinally([cli EXCEPT !.log = Append(@, Message("complete", NoPath))])
  /\ UNCHANGED <<db, nextId, schemaUnique, ing, calls, ask, split, rag, chat, tools>>

\* document-manager.ts 54-56: client.end() resolves; the command has
\* returned and the process ends
CliEnded ==
  /\ cli.pc = "ending"
  /\ cli' = [cli EXCEPT !.connected = FALSE, !.pc = "exit"]
  /\ UNCHANGED <<db, nextId, schemaUnique, ing, calls, ask, split, rag, chat, tools>>

\* lines 104-111, 121-123, 136-154: getStats returns (the zeros when its
\* query threw); on no chunks the command returns (the interactive command
\* without a call of disconnect: the open connection keeps the process),
\* otherwise the query command calls askQuestion and the interactive
\* command prompts
CliCheckStats ==
  /\ cli.pc = "stats"
  /\ \E ok \in BOOLEAN :
       LET stats == IF ok THEN StatsOf(db) ELSE NoStats
       IN  IF stats.totalChunks = 0
           THEN /\ LET failed == [cli EXCEPT !.log = Append(@, Message("noDocuments",
                                                                       NoPath))]
                   IN  cli' = IF cli.command = "query" THEN CliFinally(failed)
                              ELSE [failed EXCEPT !.pc = "returned"]
                /\ ask' = ask
           ELSE IF cli.command = "query"
           THEN /\ cli' = [cli EXCEPT !.pc = "ask"]
                /\ ask' = [IdleAsk EXCEPT !.pc = "getStats",
                                          !.maxResults = DefaultMaxResults]
           ELSE /\ cli' = [cli EXCEPT !.pc = "prompt"]
                /\ ask' = ask
  /\ UNCHANGED <<db, nextId, schemaUnique, ing, calls, split, rag, chat, tools>>

\* lines 111-123: askQuestion resolved, the answer is printed
CliQueryAnswer ==
  /\ cli.pc = "ask"
  /\ ask.pc = "done"
  /\ cli' = CliFinally([cli EXCEPT !.log = Append(@, Message(ask.result.kind, NoPath))])
  /\ ask' = IdleAsk
  /\ UNCHANGED <<db, nextId, schemaUnique, ing, calls, split, rag, chat, tools>>

\* lines 154-159: an empty line is read, the prompt is shown again
CliPromptBlank ==
  /\ cli.pc = "prompt"
  /\ cli.lines < MaxQuestions
  /\ cli' = [cli EXCEPT !.lines = @ + 1]
  /\ UNCHANGED <<db, nextId, schemaUnique, ing, calls, ask, split, rag, chat, tools>>

\* lines 161-164: quit, exit or q is read; disconnect is called
CliPromptQuit ==
  /\ cli.pc = "prompt"
  /\ cli' = CliFinally(cli)
  /\ UNCHANGED <<db, nextId, schemaUnique, ing, calls, ask, split, rag, chat, tools>>

\* lines 168-171: a question is read and handed to askQuestion
CliPromptQuestion ==
  /\ cli.pc = "prompt"
  /\ cli.lines < MaxQuestions
  /\ cli' = [cli EXCEPT !.lines = @ + 1, !.pc = "answering"]
  /\ ask' = [IdleAsk EXCEPT !.pc = "getStats", !.maxResults = DefaultMaxResults]
  /\ UNCHANGED <<db, nextId, schemaUnique, ing, calls, split, rag, chat, tools>>

\* lines 171-179: askQuestion resolved, the answer is printed and the
\* prompt is shown again
CliInteractiveAnswer ==
  /\ cli.pc = "answering"
  /\ ask.pc = "done"
  /\ cli' = [cli EXCEPT !.log = Append(@, Message(ask.result.kind, NoPath)),
                        !.pc = "prompt"]
  /\ ask' = IdleAsk
  /\ UNCHANGED <<db, nextId, schemaUnique, ing, calls, split, rag, chat, tools>>

\* lines 199-213: getStats returns, the stats command prints the
\* statistics
CliShowStats ==
  /\ cli.pc = "showStats"
  /\ cli' = CliFinally([cli EXCEPT !.log = Append(@, Message("statistics", NoPath))])
  /\ UNCHANGED <<db, nextId, schemaUnique, ing, calls, ask, split, rag, chat, tools>>

\* line 226, document-manager.ts 91: the DELETE of clearDatabase empties
\* the table
CliClear ==
  /\ cli.pc = "clear"
  /\ db' = {}
  /\ cli' = [cli EXCEPT !.pc = "cleared"]
  /\ UNCHANGED <<nextId, schemaUnique, ing, calls, ask, split, rag, chat, tools>>

\* lines 226-233, document-manager.ts 91-92: the DELETE resolves, the
\* success is printed
CliClearDone ==
  /\ cli.pc = "cleared"
  /\ cli' = CliFinally([cli EXCEPT !.log = Append(@, Message("cleared", NoPath))])
  /\ UNCHANGED <<db, nextId, schemaUnique, ing, calls, ask, split, rag, chat, tools>>

\* lines 228-233, document-manager.ts 93-96: the DELETE of clearDatabase
\* throws
CliClearFails ==
  /\ cli.pc = "clear"
  /\ cli' = CliFinally([cli EXCEPT !.log = Append(@, Message("clearFailed", NoPath))])
  /\ UNCHANGED <<db, nextId, schemaUnique, ing, calls, ask, split, rag, chat, tools>>

\* the steps of the askQuestion call a command is awaiting
CliAskStep ==
  /\ cli.pc \in {"ask", "answering"}
  /\ (AskGetStats \/ AskEmbed \/ AskSearch \/ AskGenerate \/ AskThrow)

\* lines 21-23: SIGINT arrives while the process runs; the handler prints
\* its line and calls disconnect, which awaits client.end(); the command
\* goes on meanwhile
CliSigint ==
  /\ cli.pc \notin {"idle", "exit"}
  /\ cli.sigints < MaxSigints
  /\ cli' = [cli EXCEPT !.log = Append(@, Message("cleaningUp", NoPath)),
                        !.disconnects = @ + 1, !.interrupted = TRUE,
                        !.sigints = @ + 1]
  /\ UNCHANGED <<db, nextId, schemaUnique, ing, calls, ask, split, rag, chat, tools>>

\* lines 23-24, document-manager.ts 54-56: the client.end() of the handler
\* resolves and process.exit(0) ends the process; the statement in flight
\* is abandoned
CliSigintExit ==
  /\ cli.interrupted
  /\ cli.pc # "exit"
  /\ cli' = [cli EXCEPT !.connected = FALSE, !.pc = "exit"]
  /\ UNCHANGED <<db, nextId, schemaUnique, ing, calls, ask, split, rag, chat, tools>>

-----------------------------------------------------------------------------
(* Specifications *)


\* two clients ingest at the same time
Next ==
  \/ \E w \in Clients : StartIngest(w, MaxConcurrentCalls)
  \/ \E w \in Clients : IngestDelete(w)
  \/ \E w \in Clients : IngestEmbed(w)
  \/ \E w \in Clients : IngestInsert(w)
  \/ \E w \in Clients : IngestThrow(w)
  \/ \E w \in Clients : IngestReturn(w)

Spec == Init /\ [][Next]_vars

\* one client ingests while another asks a question
NextReader ==
  \/ StartIngest("w1", MaxConcurrentCalls)
  \/ IngestDelete("w1")
  \/ IngestEmbed("w1")
  \/ IngestInsert("w1")
  \/ IngestThrow("w1")
  \/ IngestReturn("w1")
  \/ askQuestion(DefaultMaxResults)
  \/ AskGetStats
  \/ AskEmbed
  \/ AskSearch
  \/ AskGenerate
  \/ AskThrow
  \/ AskReturn

SpecReader == Init /\ [][NextReader]_vars

\* the rows an earlier ingestFile(FileA1) left in the table
StoredBefore ==
  {ChunkRow(1, FileA1, 0, ChunksOf(FileA1)[1], <<1, 0>>),
   ChunkRow(2, FileA1, 1, ChunksOf(FileA1)[2], <<0, 1>>)}

\* one client, one operation at a time
NextSeq ==
  \/ Quiet /\ StartIngest("w1", MaxIngestCalls)
  \/ IngestDelete("w1")
  \/ IngestEmbed("w1")
  \/ IngestInsert("w1")
  \/ IngestThrow("w1")
  \/ IngestReturn("w1")
  \/ Quiet /\ clearDatabase
  \/ Quiet /\ \E maxResults \in MaxResultsValues : askQuestion(maxResults)
  \/ AskGetStats
  \/ AskEmbed
  \/ AskSearch
  \/ AskGenerate
  \/ AskThrow
  \/ AskReturn

SpecSeq == Init /\ [][NextSeq]_vars

\* two clients ingest at the same time, each the versions of its own
\* document
NextPair ==
  \/ StartIngestOf("w1", MaxPairCalls, {FileA1, FileA2})
  \/ StartIngestOf("w2", MaxPairCalls, {FileB, FileC})
  \/ \E w \in Clients : IngestDelete(w)
  \/ \E w \in Clients : IngestEmbed(w)
  \/ \E w \in Clients : IngestInsert(w)
  \/ \E w \in Clients : IngestThrow(w)
  \/ \E w \in Clients : IngestReturn(w)

SpecPair == Init /\ [][NextPair]_vars

\* one document is ingested and re-ingested and the table is cleared while
\* a question is asked
NextRace ==
  \/ StartIngestOf("w1", MaxRaceCalls, {FileA1, FileA2})
  \/ IngestDelete("w1")
  \/ IngestEmbed("w1")
  \/ IngestInsert("w1")
  \/ IngestThrow("w1")
  \/ IngestReturn("w1")
  \/ clearDatabase
  \/ askQuestion(DefaultMaxResults)
  \/ AskGetStats
  \/ AskEmbed
  \/ AskSearch
  \/ AskGenerate
  \/ AskThrow
  \/ AskReturn

\* the table holds the two chunks that an earlier run stored for docs/a.md
InitRace ==
  /\ db = StoredBefore
  /\ nextId = Cardinality(StoredBefore) + 1
  /\ schemaUnique \in BOOLEAN
  /\ ing = [w \in Clients |-> IdleCall]
  /\ calls = 0
  /\ ask = IdleAsk
  /\ cli = IdleCli
  /\ split = IdleSplit
  /\ rag = IdleRag
  /\ chat = IdleChat
  /\ tools = IdleTools

SpecRace == InitRace /\ [][NextRace]_vars

\* one run of a command
NextCli ==
  \/ ingestCommand
  \/ CliConnect
  \/ CliConnectFails
  \/ CliDiscover
  \/ CliDiscoverPrint
  \/ CliDiscoverDone
  \/ cli.pc = "await" /\ IngestDelete("w1")
  \/ cli.pc = "await" /\ IngestEmbed("w1")
  \/ cli.pc = "await" /\ IngestInsert("w1")
  \/ cli.pc = "await" /\ IngestThrow("w1")
  \/ CliIngestDone
  \/ CliIngestFailed
  \/ CliFinalStats
  \/ CliEnded
  \/ CliSigint
  \/ CliSigintExit
  \/ otherCommand
  \/ CliCheckStats
  \/ CliQueryAnswer
  \/ CliPromptBlank
  \/ CliPromptQuit
  \/ CliPromptQuestion
  \/ CliInteractiveAnswer
  \/ CliAskStep
  \/ CliShowStats
  \/ CliClear
  \/ CliClearDone
  \/ CliClearFails

\* the table a command finds: empty, or holding the two chunks that an
\* earlier run stored for docs/a.md
InitCli ==
  /\ \/ db = {} /\ nextId = 1
     \/ db = StoredBefore /\ nextId = Cardinality(StoredBefore) + 1
  /\ schemaUnique \in BOOLEAN
  /\ ing = [w \in Clients |-> IdleCall]
  /\ calls = 0
  /\ ask = IdleAsk
  /\ cli = IdleCli
  /\ split = IdleSplit
  /\ rag = IdleRag
  /\ chat = IdleChat
  /\ tools = IdleTools

SpecCli == InitCli /\ [][NextCli]_vars

\* the tutorial pipeline: documents are ingested one after the other, a
\* search may follow each
NextRag ==
  \/ \E content \in RagContents, source \in RagSources :
       ingestDocument(content, source)
  \/ \E embedding \in ChunkVectors : RagEmbed(embedding)
  \/ RagEmbedFails
  \/ RagInsert
  \/ RagInsertFails
  \/ \E q \in QueryVectors : RagSearch(q)
  \/ RagReturn

InitRag ==
  /\ db = {}
  /\ nextId = 1
  /\ schemaUnique \in BOOLEAN
  /\ ing = [w \in Clients |-> IdleCall]
  /\ calls = 0
  /\ ask = IdleAsk
  /\ cli = IdleCli
  /\ split = IdleSplit
  /\ rag \in {[IdleRag EXCEPT !.unique = u] : u \in BOOLEAN}
  /\ chat = IdleChat
  /\ tools = IdleTools

SpecRag == InitRag /\ [][NextRag]_vars

\* the streaming chat assistant: turns and 'clear' commands
NextChat ==
  \/ initializeAssistant
  \/ \E userMessage \in ChatInputs : streamingChat(userMessage)
  \/ ChatStreamOpens
  \/ \E chunk \in ChatChunks : ChatChunk(chunk)
  \/ ChatStreamEnds
  \/ ChatThrow
  \/ clearConversation

SpecChat == Init /\ [][NextChat]_vars

\* the tool-calling assistant
NextTools ==
  \/ ToolInitializeAssistant
  \/ \E userMessage \in ToolInputs : streamingChatWithTools(userMessage)
  \/ ToolStreamOpens
  \/ \E chunk \in ToolChunks : ToolChunk(chunk)
  \/ ToolStreamEndsWithText
  \/ ToolStreamEndsWithCalls
  \/ \E writable \in BOOLEAN : ToolRun(writable)
  \/ ToolSeed
  \/ ToolThrow

SpecTools == Init /\ [][NextTools]_vars

\* calls of splitIntoChunks
NextSplit ==
  \/ \E text \in SplitTexts, p \in SplitParameters :
       SplitCall(text, p.chunkSize, p.overlap)
  \/ SplitStep
  \/ SplitReturn

SpecSplit == Init /\ [][NextSplit]_vars

-----------------------------------------------------------------------------
(* Properties *)

\* rows is exactly one generation of file: one row per chunk, with the
\* chunk's identifier, index and text
IsGenerationOf(rows, file) ==
  LET chunks == ChunksOf(file)
  IN  /\ Cardinality(rows) = Len(chunks)
      /\ \A k \in 1..Len(chunks) :
           \E r \in rows : /\ r.chunk_id = <<file.path, k - 1>>
                           /\ r.metadata.chunkIndex = k - 1
                           /\ r.metadata.source = file.path
                           /\ r.metadata.lastModified = file.lastModified
                           /\ r.content = chunks[k]

RowKeys(rows) == {<<r.chunk_id, r.content, r.metadata.chunkIndex>> : r \in rows}

\* the rows of a source among the search results a caller received
SeenIds(searchResults, source) ==
  {searchResults[k].chunk.id : k \in {j \in 1..Len(searchResults) :
                                       searchResults[j].chunk.metadata.source = source}}

\* C1 (as claimed): a search that runs between two store statements of an
\* ingestFile call for a source that had records returns, for that source,
\* either all the old records or all the new ones.
C1_ReaderSeesOneGeneration ==
  [][(/\ AskSearch
      /\ ask'.searched
      /\ ing["w1"].pc \in {"embed", "insert"}
      /\ SourceRows(ing["w1"].before, ing["w1"].file.path) # {}
      /\ Cardinality(db) <= DefaultMaxResults)
     => LET source == ing["w1"].file.path
            seen == SeenIds(ask'.searchResults, source)
        IN  \/ seen = {r.id : r \in SourceRows(ing["w1"].before, source)}
            \/ /\ seen = {r.id : r \in SourceRows(db, source)}
               /\ IsGenerationOf(SourceRows(db, source), ing["w1"].file)]_vars

\* C2 (as claimed): when ingestFile throws, the records of file.path are
\* those the store held when the call began.
C2_FailureLeavesSourceUnchanged ==
  \A w \in Clients :
    ing[w].pc = "failed"
      => SourceRows(db, ing[w].file.path) = SourceRows(ing[w].before, ing[w].file.path)

\* C3: when ingestFile returns normally, the records whose source is
\* file.path are exactly the chunks of the new content, and none of them is
\* a record the store held before the call.
C3_ReplaceOnConflict ==
  \A w \in Clients :
    ing[w].pc = "done"
      => /\ IsGenerationOf(SourceRows(db, ing[w].file.path), ing[w].file)
         /\ SourceRows(db, ing[w].file.path) \cap ing[w].before = {}

\* C3 witness: a re-ingestion has completed whose new version has fewer
\* chunks than the generation it replaced.
C3_Witness ==
  /\ ing["w1"].pc = "done"
  /\ Len(ing["w1"].textChunks) >= 1
  /\ Cardinality(SourceRows(ing["w1"].before, ing["w1"].file.path))
       > Len(ing["w1"].textChunks)

\* C4: when ingestFile returns normally for a file whose generation the
\* store already held, the (chunk_id, content, chunkIndex) records of the
\* source and their number are as before, and so are the rows of every
\* other source.
C4_IdempotentReingestion ==
  \A w \in Clients :
    (/\ ing[w].pc = "done"
     /\ IsGenerationOf(SourceRows(ing[w].before, ing[w].file.path), ing[w].file))
      => /\ RowKeys(SourceRows(db, ing[w].file.path))
              = RowKeys(SourceRows(ing[w].before, ing[w].file.path))
         /\ Cardinality(SourceRows(db, ing[w].file.path))
              = Cardinality(SourceRows(ing[w].before, ing[w].file.path))
         /\ OtherRows(db, ing[w].file.path) = OtherRows(ing[w].before, ing[w].file.path)

\* C4 witness: the second ingestion of an unchanged two-chunk document has
\* completed while another source has records.
C4_Witness ==
  /\ ing["w1"].pc = "done"
  /\ Len(ing["w1"].textChunks) = 2
  /\ IsGenerationOf(SourceRows(ing["w1"].before, ing["w1"].file.path), ing["w1"].file)
  /\ OtherRows(db, ing["w1"].file.path) # {}

\* C5 (as claimed, for a table whose chunk_id is unique): when two
\* concurrent ingestFile calls for one source have both returned normally,
\* the source holds the generation of one of the two files.
C5_ConcurrentIngestsSerialize ==
  (/\ schemaUnique
   /\ ing["w1"].pc = "done"
   /\ ing["w2"].pc = "done"
   /\ ing["w1"].file.path = ing["w2"].file.path)
    => LET rows == SourceRows(db, ing["w1"].file.path)
       IN  \/ IsGenerationOf(rows, ing["w1"].file)
           \/ IsGenerationOf(rows, ing["w2"].file)

\* C6 (as claimed): in an answer, every chunk placed in the context passed
\* the threshold, and the sources listed are those of the context.
C6_ContextPassedThreshold ==
  ask.result.kind = "answer"
    => /\ \A k \in 1..Len(ask.context) :
            ~SimLess(ask.searchResults[k].similarity, Threshold)
       /\ {ask.result.sources[k] : k \in 1..Len(ask.result.sources)}
            = {ask.context[k].source : k \in 1..Len(ask.context)}

\* C7: when the top-ranked similarity of the search is below the threshold,
\* the call has ended with the no-relevant-information sentinel and
\* generateContent was not called.
C7_ThresholdGating ==
  (/\ ask.searched
   /\ Len(ask.searchResults) > 0
   /\ SimLess(ask.searchResults[1].similarity, Threshold))
    => /\ ask.generateCalls = 0
       /\ ask.pc = "done"
       /\ ask.result = NoRelevant

\* C7 witness: a search returned rows, the best of them below 0.3.
C7_Witness ==
  /\ ask.searched
  /\ Len(ask.searchResults) >= 2
  /\ SimLess(ask.searchResults[1].similarity, Threshold)
  /\ ask.pc = "done"

\* C8: when getStats ran on an empty table, the call has ended with the
\* no-documents sentinel and neither embedContent nor generateContent was
\* called.
C8_EmptyStoreSentinel ==
  (ask.pc \notin {"idle", "getStats"} /\ ask.sawEmpty)
    => /\ ask.pc = "done"
       /\ ask.result = NoDocuments
       /\ ask.embedCalls = 0
       /\ ask.generateCalls = 0

\* C8 witness: a question was answered on a table that clearDatabase had
\* emptied (the one ingestFile call made so far inserted rows, and a call
\* deletes only before it inserts).
C8_Witness ==
  /\ ask.pc = "done"
  /\ ask.sawEmpty
  /\ ask.result = NoDocuments
  /\ nextId > 1
  /\ calls = 1

Logged(kind, path) == \E k \in 1..Len(cli.log) : cli.log[k] = Message(kind, path)

\* C9 (as claimed): when the command has ended, not by SIGINT, every file
\* listed after a file whose ingestion failed was handed to ingestFile too.
C9_BatchContinuesAfterFailure ==
  (cli.pc = "exit" /\ ~cli.interrupted)
    => \A j \in 1..Len(cli.files) : \A k \in 1..Len(cli.files) :
         (j < k /\ Logged("errorIngest", cli.files[j].path))
           => Logged("processing", cli.files[k].path)

SkipKinds == {"skipUnsupported", "skipEmpty", "errorFile", "errorIngest"}

\* C10 (as claimed): when the command has ended, not by SIGINT, after it
\* listed the files under the input path, every one of them was ingested
\* or is named by a skip or error line.
C10_NoSilentDrop ==
  (cli.pc = "exit" /\ cli.discovered /\ ~cli.interrupted)
    => \A path \in FilesUnder(cli.input) :
         \/ Logged("success", path)
         \/ \E kind \in SkipKinds : Logged(kind, path)

\* C11 (as claimed): when an awaited call of askQuestion has thrown (the
\* query of getStats, embedContent, the search query, generateContent), the
\* call ends with the error answer, never with the no-documents or the
\* no-relevant-information sentinel.
C11_FailureIsNotASentinel ==
  (ask.pc = "done" /\ ask.failure # "")
    => /\ ask.result = ErrorAnswer
       /\ ask.result \notin {NoDocuments, NoRelevant}

\* the similarity of a stored row to the question of the running call
SimilarityTo(row) == CosineSimilarity(ask.queryEmbedding, row.embedding)

\* C12: when the search of a call has returned, it returned min(topK,
\* number of rows) results, all of them distinct rows of the table with
\* their similarity, in order of non-increasing similarity, and no row
\* left out is strictly more similar to the query than a returned one.
C12_SearchTopK ==
  (ask.searched /\ ask.pc \in {"generate", "done"})
    => LET res == ask.searchResults
           returned == {res[k].chunk.id : k \in 1..Len(res)}
       IN  /\ Len(res) = Min(ask.maxResults, Cardinality(db))
           /\ Cardinality(returned) = Len(res)
           /\ \A k \in 1..Len(res) :
                \E r \in db : /\ r.id = res[k].chunk.id
                              /\ res[k].similarity = SimilarityTo(r)
           /\ \A j \in 1..Len(res) : \A k \in 1..Len(res) :
                j < k => ~SimLess(res[j].similarity, res[k].similarity)
           /\ \A r \in db : \A k \in 1..Len(res) :
                r.id \notin returned => ~SimLess(res[k].similarity, SimilarityTo(r))

\* C12 witness: a search with topK 2 returned two rows of different
\* similarity and left a third row out.
C12_Witness ==
  /\ ask.searched
  /\ ask.pc \in {"generate", "done"}
  /\ ask.maxResults = 2
  /\ Len(ask.searchResults) = 2
  /\ Cardinality(db) = 3
  /\ SimLess(ask.searchResults[2].similarity, ask.searchResults[1].similarity)

\* a is a prefix of b
IsPrefix(a, b) == Len(a) <= Len(b) /\ a = SubSeq(b, 1, Len(a))

\* C13 (as claimed): on the table as it stands, every result the statement
\* can return for (q, k) is a prefix of every result it can return for
\* (q, k + 1).
C13_SearchPrefix ==
  \A q \in QueryVectors : \A k \in 1..(DefaultMaxResults - 1) :
    ~SearchFails(db, q)
      => \A a \in searchSimilarChunks(db, q, k) :
           \A b \in searchSimilarChunks(db, q, k + 1) : IsPrefix(a, b)

\* the operator used by ingestFile and the loop taken step by step agree
SplitAgrees ==
  split.pc = "done"
    => split.result = splitIntoChunks(split.text, split.chunkSize, split.overlap)

\* C14 (as claimed): every iteration of the loop of splitIntoChunks strictly
\* increases start.
C14_ForwardProgress ==
  [][SplitStep => split'.start > split.start]_vars

\* C15 (as claimed): for a text shorter than chunkSize whose trimmed length
\* is above the minimum, splitIntoChunks returns one passage, the trimmed
\* text.
C15_ShortTextOnePassage ==
  (/\ split.pc = "done"
   /\ Len(split.text) < split.chunkSize
   /\ Len(Trim(split.text)) > MinChunkLength)
    => split.result = <<Trim(split.text)>>

\* C16: every chunk that passes the length filter, pushed so far or
\* returned, is longer than the minimum chunk length and at most
\* chunkSize + overlap long.
C16_PassageLength ==
  /\ \A k \in 1..Len(split.chunks) :
       Len(split.chunks[k]) > MinChunkLength
         => Len(split.chunks[k]) <= split.chunkSize + split.overlap
  /\ \A k \in 1..Len(split.result) :
       /\ Len(split.result[k]) > MinChunkLength
       /\ Len(split.result[k]) <= split.chunkSize + split.overlap

\* C16 witness: a passage was returned whose end was moved past the ". "
\* found at the tentative end: it is longer than chunkSize, and a passage
\* of the same call was cut at the hard end of the text.
C16_Witness ==
  /\ split.pc = "done"
  /\ Len(split.result) = 2
  /\ Len(split.result[1]) = split.chunkSize + split.overlap
  /\ split.windows[1].end = split.windows[1].start + split.chunkSize + 2
  /\ split.result[1][Len(split.result[1])] = 46    \* "."

\* position p of the text (from 0) lies in the window sliced for a chunk
InWindow(w, p) ==
  LET from == IF w.start >= 0 THEN w.start
              ELSE IF Len(split.text) + w.start > 0 THEN Len(split.text) + w.start
              ELSE 0
  IN  from <= p /\ p < w.end

\* C17 (as claimed): when splitIntoChunks returns, every character of the
\* text that is not white space lies in the window of a returned passage.
C17_ChunkCoverage ==
  split.pc = "done"
    => \A p \in 0..(Len(split.text) - 1) :
         split.text[p + 1] \notin WhiteSpace
           => \E k \in 1..Len(split.chunks) :
                /\ Len(split.chunks[k]) > MinChunkLength
                /\ InWindow(split.windows[k], p)

\* C18 (as claimed): when SIGINT has ended the process while ingestFile was
\* between its DELETE and its last INSERT, the source holds the records it
\* had when the call began, or the complete generation of the new file.
C18_AbortLeavesNoPartialDocument ==
  (/\ cli.pc = "exit"
   /\ cli.interrupted
   /\ ing["w1"].pc \in {"embed", "insert"})
    => LET source == ing["w1"].file.path
       IN  \/ SourceRows(db, source) = SourceRows(ing["w1"].before, source)
           \/ IsGenerationOf(SourceRows(db, source), ing["w1"].file)

\* the embedContent calls of the running ingestFile call that have returned
EmbeddingsReturned(w) ==
  CASE ing[w].pc = "insert" -> ing[w].i + 1
    [] ing[w].pc = "embed" -> ing[w].i
    [] OTHER -> 0

\* C19 (as claimed): a statement of ingestFile that modifies the store (the
\* DELETE, or an INSERT that succeeds) is issued only when the embedding of
\* every chunk of the document has returned.
C19_EmbedAllBeforeStore ==
  [][\A w \in Clients :
       (IngestDelete(w) \/ (IngestInsert(w) /\ db' # db))
         => EmbeddingsReturned(w) = Len(ChunksOf(ing[w].file))]_vars

\* the indices (from 0) at or before end at which pattern pat starts
Occurrences(pat, end) ==
  {k \in 0..Min(Max(end, 0), Len(split.text) - Len(pat)) :
     OccursAt(split.text, pat, k)}

\* the nearest occurrence at or before end of a kind of breakpoint (a set
\* of patterns) and the index just past it; {} if the kind does not occur
NearestOfKind(kind, end) ==
  LET found == UNION {{[at |-> k, past |-> k + Len(pat)] :
                         k \in Occurrences(pat, end)} : pat \in kind}
  IN  {f \in found : \A g \in found : g.at <= f.at}

\* the kinds of breakpoint the claim names, in priority order
ClaimedKinds ==
  << {<<10, 10>>}, {<<10>>},    \* "\n\n"; "\n"
     {<<46, 32>>, <<33, 32>>, <<63, 32>>} >>    \* ". ", "! ", "? "

\* the kinds of breakpoint of line 124, in priority order
CodeKinds ==
  << {<<10, 10>>}, {<<10>>}, {<<46, 32>>}, {<<33>>}, {<<63>>}, {<<59>>} >>

\* what text.lastIndexOf gives for a kind: its nearest occurrence at or
\* before end, and the index -1 when the kind does not occur there
LastIndexOfKind(kind, end) ==
  IF NearestOfKind(kind, end) # {} THEN NearestOfKind(kind, end)
  ELSE {[at |-> -1, past |-> Len(pat) - 1] : pat \in kind}

\* the end of the window that starts at start, by the rule: the first
\* kind for which the index found by Found is accepted sets the end to
\* just past it, otherwise the tentative end is kept
RuleEnd(kinds, start, Found(_, _), Accepted(_, _)) ==
  LET end == start + split.chunkSize
      ok == {b \in 1..Len(kinds) :
               \E f \in Found(kinds[b], end) : Accepted(f.at, start)}
  IN  IF ok = {} THEN {end}
      ELSE {f.past : f \in Found(kinds[CHOOSE b \in ok : \A c \in ok : b <= c], end)}

AtOrAfterMidpoint(b, start) == 2 * b >= 2 * start + split.chunkSize
AfterMidpoint(b, start) == 2 * b > 2 * start + split.chunkSize

\* the windows cut so far whose tentative end lies before the end of text
SearchedWindows ==
  {k \in 1..Len(split.windows) :
     split.windows[k].start + split.chunkSize < Len(split.text)}

\* C20 (as claimed): a breakpoint is accepted when it lies at or after
\* start + chunkSize * 0.5; the kinds tried are the double newline, the
\* single newline, and sentence-final punctuation followed by a space.
C20_BreakAtOrAfterMidpoint ==
  \A k \in SearchedWindows :
    split.windows[k].end
      \in RuleEnd(ClaimedKinds, split.windows[k].start, NearestOfKind,
                  AtOrAfterMidpoint)

\* C20 (amended): the kinds tried, in order, are the double newline, the
\* newline, ". ", "!", "?" and ";"; for each, b is text.lastIndexOf(kind,
\* end), the index of its nearest occurrence at or before the tentative
\* end, or -1 when there is none; the kind is accepted exactly when b lies
\* strictly after start + chunkSize * 0.5, which the -1 of an absent kind
\* does once start is below -1 - chunkSize * 0.5; the first kind accepted
\* sets end to b plus the length of the kind, and otherwise the tentative
\* end is kept.
C20_BreakAfterMidpoint ==
  \A k \in 1..Len(split.windows) :
    IF k \in SearchedWindows
    THEN split.windows[k].end
           \in RuleEnd(CodeKinds, split.windows[k].start, LastIndexOfKind,
                       AfterMidpoint)
    ELSE split.windows[k].end = split.windows[k].start + split.chunkSize

\* C20 witness: a window whose tentative end lies before the end of the
\* text was not cut at the newline that lies exactly at its midpoint, and a
\* later window, whose start had fallen far enough below 0, was cut at 1,
\* just past the -1 found for the absent double newline.
C20_Witness ==
  /\ \E k \in SearchedWindows :
       \E f \in NearestOfKind({<<10>>}, split.windows[k].start + split.chunkSize) :
         /\ 2 * f.at = 2 * split.windows[k].start + split.chunkSize
         /\ split.windows[k].end # f.past
  /\ \E k \in SearchedWindows :
       /\ NearestOfKind({<<10, 10>>}, split.windows[k].start + split.chunkSize) = {}
       /\ 2 * split.windows[k].start + split.chunkSize < -2
       /\ split.windows[k].end = 1

\* C21 (as claimed): in the list a search returned, of two rows at equal
\* similarity the one inserted earlier comes first.
C21_TiesInInsertionOrder ==
  ask.searched
    => \A j \in 1..Len(ask.searchResults) : \A k \in 1..Len(ask.searchResults) :
         (/\ j < k
          /\ ~SimLess(ask.searchResults[j].similarity, ask.searchResults[k].similarity)
          /\ ~SimLess(ask.searchResults[k].similarity, ask.searchResults[j].similarity))
           => ask.searchResults[j].chunk.id < ask.searchResults[k].chunk.id

\* the regular files under an entry that enumeration can reach: those not
\* below a directory that cannot be listed
RECURSIVE ReachableFiles(_)
ReachableFiles(entry) ==
  IF entry.kind = "file" THEN {entry}
  ELSE IF entry.kind = "dir" /\ entry.readable
  THEN UNION {ReachableFiles(entry.children[k]) : k \in 1..Len(entry.children)}
  ELSE {}

\* C22 (as claimed): when the files under a directory have been listed
\* (no --type filter), every reachable file that processFile accepts is
\* among them, whatever other entries its directory holds.
C22_SkippedEntryNotFatal ==
  (cli.discovered /\ cli.type = <<>> /\ cli.input.kind = "dir")
    => \A entry \in ReachableFiles(cli.input) :
         processFile(entry).ok
           => \E k \in 1..Len(cli.files) : cli.files[k].path = entry.path

\* the source paths of the search results
RetrievedSources(searchResults) ==
  {searchResults[k].chunk.metadata.source : k \in 1..Len(searchResults)}

\* C23 (as claimed): the sources list of an answer has one entry per
\* distinct source path among the retrieved chunks.
C23_OneEntryPerSource ==
  ask.result.kind = "answer"
    => Len(ask.result.sources) = Cardinality(RetrievedSources(ask.searchResults))

\* C26 (as claimed): when ingestFile returns normally for a file whose
\* content is not empty, the store holds a record of the source.
C26_SuccessStoresSomething ==
  \A w \in Clients :
    (ing[w].pc = "done" /\ Len(Trim(ing[w].file.content)) > 0)
      => SourceRows(db, ing[w].file.path) # {}

\* C28 (as claimed): when a command has ended on which connect resolved,
\* disconnect was called exactly once.
C28_DisconnectExactlyOnce ==
  (cli.pc \in {"exit", "returned"} /\ cli.didConnect) => cli.disconnects = 1

\* C27: when getStats reported chunks and the search then returned no row,
\* the call has ended with the no-relevant-information sentinel and
\* generateContent was not called.
C27_EmptySearchAfterStats ==
  (/\ ask.searched
   /\ ask.stats.totalChunks > 0
   /\ Len(ask.searchResults) = 0)
    => /\ ask.pc = "done"
       /\ ask.result = NoRelevant
       /\ ask.generateCalls = 0

\* C27 witness: such a call has ended, the rows having been removed by the
\* DELETE of an ingestFile call that is still running.
C27_Witness ==
  /\ ask.pc = "done"
  /\ ask.searched
  /\ ask.stats.totalChunks > 0
  /\ Len(ask.searchResults) = 0
  /\ ing["w1"].pc \in {"embed", "insert"}
  /\ ing["w1"].i = 0

\* C25: a step of an ingestFile call, whether the call succeeds or fails,
\* leaves the rows of every other source as they are; and when a call has
\* returned normally while calls for another source ran in between its
\* steps, its source holds the generation of its file, as after a call
\* that ran alone.
C25_OtherSourcesUntouched ==
  /\ [][\A w \in Clients :
          (IngestDelete(w) \/ IngestInsert(w) \/ IngestThrow(w))
            => OtherRows(db', ing[w].file.path) = OtherRows(db, ing[w].file.path)]_vars
  /\ [](\A w \in Clients :
          ing[w].pc = "done"
            => IsGenerationOf(SourceRows(db, ing[w].file.path), ing[w].file))

\* C25 witness: both clients' calls have returned normally, and a row of
\* the second source was inserted between the two rows of the first.
C25_Witness ==
  /\ ing["w1"].pc = "done"
  /\ ing["w2"].pc = "done"
  /\ \E a \in SourceRows(db, PathA), b \in SourceRows(db, PathB), c \in SourceRows(db, PathA) :
       a.id < b.id /\ b.id < c.id


RagRecordsOf(rows, source) == {r \in rows : r.metadata.source = source}

\* C24 (as claimed): once ingestDocument has completed for a source that
\* had records before, the records of that source are exactly the chunks of
\* the new content, and a search returns no record of the source with a
\* chunk index the new content does not have.
C24_ReplaceOnConflict ==
  (rag.pc \in {"done", "searched"} /\ RagRecordsOf(rag.before, rag.source) # {})
    => /\ {<<r.metadata.chunkIndex, r.content>> :
             r \in RagRecordsOf(rag.store, rag.source)}
            = {<<i - 1, rag.textChunks[i]>> : i \in 1..Len(rag.textChunks)}
       /\ rag.pc = "searched"
            => \A k \in 1..Len(rag.found) :
                 rag.found[k].chunk.metadata.source = rag.source
                   => rag.found[k].chunk.metadata.chunkIndex < Len(rag.textChunks)

\* the response the loop records for a call: the tool's value under
\* `result`, or the message of the error it threw under `error`
IsResponseTo(call, response) ==
  \E writable \in BOOLEAN :
    LET outcome == runTool(call, writable)
    IN  IF outcome.threw
        THEN DOMAIN response = {"error"} /\ response.error = outcome.message
        ELSE DOMAIN response = {"result"} /\ response.result = outcome.value

\* C29: while a round's calls remain, the next step runs the next call in
\* emission order, whatever the call before it did: stats.toolsUsed grows
\* by one and the call's result or error message is recorded; once all have
\* run, the transcript gains, per call and in order, a model functionCall
\* entry immediately followed by its function response.
C29_EveryCallRunsOnce ==
  /\ [](tools.pc = "run" =>
          /\ Len(tools.results) = tools.i
          /\ \A k \in 1..tools.i :
               /\ tools.results[k].call = tools.calls[k]
               /\ IsResponseTo(tools.calls[k], tools.results[k].result))
  /\ [][(tools.pc = "run" /\ tools.i < Len(tools.calls))
          => /\ tools'.pc = "run"
             /\ tools'.i = tools.i + 1
             /\ tools'.calls = tools.calls
             /\ tools'.stats.toolsUsed = tools.stats.toolsUsed + 1]_vars
  /\ [][(tools.pc = "run" /\ tools.i = Len(tools.calls))
          => LET n == Len(tools.transcript)
             IN  /\ Len(tools'.transcript) = n + 2 * Len(tools.calls)
                 /\ SubSeq(tools'.transcript, 1, n) = tools.transcript
                 /\ tools'.stats.toolsUsed = tools.stats.toolsUsed
                 /\ \A k \in 1..Len(tools.calls) :
                      /\ tools'.transcript[n + 2 * k - 1]
                           = [role |-> "model",
                              parts |-> <<[functionCall |-> tools.calls[k]]>>]
                      /\ tools'.transcript[n + 2 * k].role = "function"
                      /\ LET part == tools'.transcript[n + 2 * k].parts[1].functionResponse
                         IN  /\ part.name = tools.calls[k].name
                             /\ IsResponseTo(tools.calls[k], part.response)]_vars

\* a round of two calls has been written to the transcript: the first call
\* threw, the second ran and returned
C29_Witness ==
  /\ tools.pc = "request"
  /\ ~tools.first
  /\ Len(tools.calls) = 2
  /\ DOMAIN tools.results[1].result = {"error"}
  /\ DOMAIN tools.results[2].result = {"result"}
  /\ Len(tools.transcript) >= 5

HistoryWellFormed(messages) ==
  /\ Len(messages) % 2 = 1
  /\ messages[1].role = "system"
  /\ \A k \in 2..Len(messages) :
       messages[k].role = IF k % 2 = 0 THEN "user" ELSE "assistant"

\* C30 (as claimed): between turns the history is the system message
\* followed by user and assistant messages in alternation, every user
\* message having its assistant message, also after a failed model call;
\* clearConversation leaves exactly the system message and does not change
\* totalTokensUsed.
C30_HistoryWellFormed ==
  /\ [](chat.pc = "prompt" => HistoryWellFormed(chat.messages))
  /\ [][clearConversation
          => /\ chat'.messages = <<SystemMessage>>
             /\ chat'.totalTokensUsed = chat.totalTokensUsed]_vars

====
